---------------------------- MODULE Spec2Model ----------------------------
(***************************************************************************)
(* go-story: the read-only query layer of internal/data (Repo).            *)
(*                                                                         *)
(* A request is one call of a Repo method.  The model keeps the database   *)
(* the call reads, the inputs of the call, the statement the call builds,  *)
(* the rows the database answers with, the relation queries of the         *)
(* hydration pass and the value or error the call returns.                 *)
(*                                                                         *)
(* Encodings                                                               *)
(*   - a Go pointer / optional field is a sequence of length 0 (nil) or 1; *)
(*   - a nullable column (sql.NullInt64, sql.NullTime) is a record         *)
(*     [valid, v] as in database/sql;                                      *)
(*   - timestamps are naturals; a formatted timestamp is the one-element   *)
(*     sequence of the instant and the empty string is the empty sequence; *)
(*   - order directions are sequences of characters, so that ToUpper is    *)
(*     computed character by character;                                    *)
(*   - the rows of a relation come in no defined order and are kept as a   *)
(*     set; the rows of the primary statement are a sequence.              *)
(***************************************************************************)
EXTENDS Integers, Sequences, FiniteSets, TLC

VARIABLES
    db,         \* the database (owned by the CMS; read-only for the Repo)
    cacheOn,    \* r.cache != nil && r.cache.Enabled()
    cache,      \* cache key -> cached value
    pc,         \* "idle": no call in progress; "done": a call has returned
    call,       \* the inputs of the last call
    stmt,       \* the primary statement the call built and executed
    full,       \* what the statement yields without LIMIT/OFFSET (same run)
    queries,    \* the relation queries the hydration pass issued
    ret,        \* what the call returned: [err, value, count]
    cacheOps,   \* the cache operations of the call, in the order of their issue
    hist,       \* the last call that missed the cache: [key, call, ret, full]
    goroutines, \* the requests served at the same time: position and locals
    heap        \* the slices those requests allocated, by allocation

vars == <<db, cacheOn, cache, pc, call, stmt, full, queries, ret, cacheOps, hist,
          goroutines, heap>>

---------------------------------------------------------------------------
(* Bounds of the model.                                                    *)

MaxTake == 2
MaxSkip == 3
MaxEdges == 2
MaxItems == 3
MaxGoroutines == 2

---------------------------------------------------------------------------
(* Deadlines (seconds).                                                    *)

CountTimeout == 5
PrimaryTimeout == 10
HydrationTimeout == 15

\* the deadline of a context that has none: later than every instant
NoDeadline == 1000

\* context.WithTimeout(parent, d) at the instant now: the deadline of the
\* derived context is the earlier of the parent's and now + d
WithTimeout(parent, now, d) == IF now + d < parent THEN now + d ELSE parent

\* a statement issued at the instant t under a context with the deadline dl
\* is cancelled when the deadline has passed
Cancelled(t, dl) == t >= dl

---------------------------------------------------------------------------
(* Pointers, nullable columns, strings.                                    *)

Nil == <<>>
Ptr(x) == <<x>>
IsNil(p) == p = <<>>
Deref(p) == p[1]

Null == [valid |-> FALSE, v |-> 0]
NotNull(x) == [valid |-> TRUE, v |-> x]

\* nullableInt: a NULL id reads as 0
nullableInt(n) == IF n.valid THEN n.v ELSE 0

\* time.Format of a valid timestamp; the zero value of a Go string otherwise
FormatTime(t) == IF t.valid THEN <<t.v>> ELSE <<>>

LowerChars == <<"a", "b", "c", "d", "e", "i", "s", "w", "y">>
UpperChars == <<"A", "B", "C", "D", "E", "I", "S", "W", "Y">>

UpperChar(c) ==
    IF \E i \in DOMAIN LowerChars : LowerChars[i] = c
    THEN UpperChars[CHOOSE i \in DOMAIN LowerChars : LowerChars[i] = c]
    ELSE c

\* strings.ToUpper
ToUpper(s) == [i \in DOMAIN s |-> UpperChar(s[i])]

ASC == <<"A", "S", "C">>
DESC == <<"D", "E", "S", "C">>

\* strconv.Itoa / strconv.Atoi on the identifiers of the model (one digit)
Digits == <<"1", "2", "3", "4", "5", "6", "7", "8", "9">>
Itoa(n) == IF n \in DOMAIN Digits THEN Digits[n] ELSE "0"
Atoi(s) ==
    IF \E n \in DOMAIN Digits : Digits[n] = s
    THEN CHOOSE n \in DOMAIN Digits : Digits[n] = s
    ELSE 0

\* the collation of the text values that can be a sort key
TextOrder == <<"a", "b", "c", "d", "n1", "n2", "n3", "t1", "t2", "t3">>
Collate(s) == CHOOSE i \in DOMAIN TextOrder : TextOrder[i] = s

SeqToSet(s) == {s[i] : i \in DOMAIN s}

---------------------------------------------------------------------------
(* The database: the tables and join tables the Repo reads.  A join table  *)
(* is a set of rows <<A, B>>.  Columns that the Repo only copies into the  *)
(* result (subtitle, style, brief, content, ...) are left out.             *)

PostRow(id, slug, title, state, adult, pub, upd, img, vid, top, og, r1, r2) ==
    [id |-> id, slug |-> slug, title |-> title, state |-> state,
     isAdult |-> adult, isMember |-> FALSE,
     publishedDate |-> pub, updatedAt |-> upd,
     heroImage |-> img, heroVideo |-> vid, topics |-> top, og_image |-> og,
     relatedsOne |-> r1, relatedsTwo |-> r2]

ExternalRow(id, slug, state, pub, upd, partner) ==
    [id |-> id, slug |-> slug, title |-> slug, state |-> state,
     publishedDate |-> pub, updatedAt |-> upd, partner |-> partner]

TopicRow(id, name, slug, sortOrder, state, created, upd, img, og) ==
    [id |-> id, name |-> name, slug |-> slug, sortOrder |-> sortOrder,
     state |-> state, isFeatured |-> FALSE, type |-> "list", style |-> "wide",
     createdAt |-> created, updatedAt |-> upd,
     heroImage |-> img, og_image |-> og]

SampleDB ==
    [Post |-> {
        PostRow(1, "a", "c", "published", FALSE, NotNull(3), NotNull(1),
                NotNull(1), NotNull(1), NotNull(1), Null, NotNull(2), Null),
        PostRow(2, "b", "a", "published", TRUE, Null, NotNull(2),
                NotNull(2), Null, Null, NotNull(1), Null, NotNull(3)),
        PostRow(3, "c", "b", "draft", FALSE, NotNull(1), Null,
                Null, Null, NotNull(2), Null, Null, Null),
        PostRow(4, "d", "d", "published", FALSE, NotNull(2), NotNull(3),
                Null, NotNull(2), Null, Null, Null, Null)},
     External |-> {
        ExternalRow(1, "a", "published", NotNull(2), NotNull(1), NotNull(1)),
        ExternalRow(2, "b", "published", Null, NotNull(2), Null),
        ExternalRow(3, "c", "published", NotNull(1), Null, NotNull(1)),
        ExternalRow(4, "d", "draft", NotNull(3), NotNull(3), NotNull(2))},
     Topic |-> {
        TopicRow(1, "n1", "t3", NotNull(2), "published", NotNull(1), NotNull(2),
                 NotNull(1), Null),
        TopicRow(2, "n2", "t2", Null, "published", NotNull(2), Null,
                 Null, NotNull(3)),
        TopicRow(3, "n3", "t1", NotNull(1), "draft", Null, NotNull(1),
                 Null, Null)},
     Section |-> {[id |-> 1, slug |-> "s1", state |-> "active"],
                  [id |-> 2, slug |-> "s2", state |-> "inactive"]},
     Category |-> {[id |-> 1, slug |-> "c1", state |-> "active", isMemberOnly |-> FALSE],
                   [id |-> 2, slug |-> "c2", state |-> "active", isMemberOnly |-> TRUE]},
     Contact |-> {[id |-> 1, name |-> "w1"], [id |-> 2, name |-> "w2"]},
     Tag |-> {[id |-> 1, slug |-> "g1"], [id |-> 2, slug |-> "g2"]},
     Image |-> {[id |-> 1, fileID |-> "f1", ext |-> "png"],
                [id |-> 2, fileID |-> "f2", ext |-> ""],
                [id |-> 3, fileID |-> "", ext |-> "jpg"]},
     Video |-> {[id |-> 1, heroImage |-> NotNull(2)],
                [id |-> 2, heroImage |-> Null]},
     Partner |-> {[id |-> 1, slug |-> "p1"], [id |-> 2, slug |-> "p2"]},
     joins |-> [_Post_sections |-> {<<1, 1>>, <<2, 2>>, <<4, 1>>},
                _Category_posts |-> {<<1, 1>>, <<2, 1>>, <<2, 4>>},
                _Post_writers |-> {<<1, 1>>, <<2, 1>>, <<1, 2>>},
                _Post_photographers |-> {<<2, 4>>},
                _Post_camera_man |-> {<<1, 1>>},
                _Post_designers |-> {<<2, 3>>},
                _Post_engineers |-> {<<2, 2>>},
                _Post_vocals |-> {<<1, 4>>},
                _Post_tags |-> {<<1, 1>>, <<2, 2>>},
                _Post_tags_algo |-> {<<1, 2>>, <<4, 1>>},
                _Post_relateds |-> {<<1, 2>>, <<4, 1>>},
                _External_tags |-> {<<1, 1>>, <<3, 2>>},
                Tag_topics |-> {<<1, 1>>, <<2, 2>>},
                Topic_slideshow_images |-> {<<1, 1>>, <<1, 3>>, <<2, 2>>}]]

PostIDs == {p.id : p \in SampleDB.Post}

\* the join table of related articles, any rows up to MaxEdges of them
EdgeSets ==
    {SeqToSet(e) : e \in UNION {[1..n -> PostIDs \X PostIDs] : n \in 0..MaxEdges}}

WithRelateds(d, E) == [d EXCEPT !.joins._Post_relateds = E]

RowByID(table, id) == CHOOSE r \in table : r.id = id
HasID(table, id) == \E r \in table : r.id = id

---------------------------------------------------------------------------
(* Filters (StringFilter, BooleanFilter, ...WhereInput) and order rules.   *)

StringFilter(eq, in, not) == [equals |-> eq, in |-> in, not |-> not]
Equals(v) == StringFilter(Ptr(v), <<>>, Nil)
BooleanFilter(eq) == [equals |-> eq]

NoPostWhere ==
    [slug |-> Nil, sections |-> Nil, categories |-> Nil, state |-> Nil,
     isAdult |-> Nil, isMember |-> Nil, isFeatured |-> Nil, topics |-> Nil]

NoExternalWhere ==
    [slug |-> Nil, state |-> Nil, partner |-> Nil, publishedDate |-> Nil]

NoTopicWhere ==
    [slug |-> Nil, name |-> Nil, state |-> Nil, isFeatured |-> Nil,
     type |-> Nil, style |-> Nil]

OrderRule(field, direction) == [Field |-> field, Direction |-> direction]

\* a variant that fills in the default only for an absent filter
ensurePostPublished_AbsentOnly(where) ==
    IF IsNil(where) THEN Ptr([NoPostWhere EXCEPT !.state = Ptr(Equals("published"))])
    ELSE where

\* a default that replaces the state filter of the caller
ensurePostPublished_Overwrites(where) ==
    LET w == IF IsNil(where) THEN NoPostWhere ELSE Deref(where)
    IN  Ptr([w EXCEPT !.state = Ptr(Equals("published"))])

\* ensurePostPublished
ensurePostPublished(where) ==
    LET w == IF IsNil(where) THEN NoPostWhere ELSE Deref(where)
    IN  Ptr(IF IsNil(w.state) THEN [w EXCEPT !.state = Ptr(Equals("published"))]
            ELSE w)

\* ensureExternalPublished
ensureExternalPublished(where) ==
    LET w == IF IsNil(where) THEN NoExternalWhere ELSE Deref(where)
    IN  Ptr(IF IsNil(w.state) THEN [w EXCEPT !.state = Ptr(Equals("published"))]
            ELSE w)

---------------------------------------------------------------------------
(* The statement under construction: conds, args and argIdx of the query   *)
(* methods.  A predicate is [op, col, ph, subs]: ph is the number of its   *)
(* placeholder ($ph, 0 when it has none), subs the predicates inside an    *)
(* EXISTS subquery.                                                        *)

NewBuilder == [conds |-> <<>>, args |-> <<>>, argIdx |-> 1, join |-> FALSE]

Cond(op, col, ph, subs) == [op |-> op, col |-> col, ph |-> ph, subs |-> subs]

\* a bound argument: an interface{} holding a string, a bool, a time or a
\* text array; kind is its dynamic type
Arg(kind, v) == [kind |-> kind, v |-> v]

\* conds = append(conds, "<col> <op> $argIdx"); args = append(args, v); argIdx++
AddCond(b, op, col, v) ==
    [b EXCEPT !.conds = Append(@, Cond(op, col, b.argIdx, <<>>)),
              !.args = Append(@, v),
              !.argIdx = @ + 1]

\* conds = append(conds, "<col> IS NOT NULL")
AddNotNull(b, col) ==
    [b EXCEPT !.conds = Append(@, Cond("IS NOT NULL", col, 0, <<>>))]

\* buildStringFilter of QueryPosts and QueryTopics: equals and in
buildStringFilterIn(b, field, f) ==
    IF IsNil(f) THEN b
    ELSE LET sf == Deref(f)
             b1 == IF ~IsNil(sf.equals)
                   THEN AddCond(b, "=", field, Arg("string", Deref(sf.equals))) ELSE b
         IN  IF Len(sf.in) > 0 THEN AddCond(b1, "ANY", field, Arg("array", sf.in))
             ELSE b1

\* buildStringFilter of the count queries and of QueryExternals: equals only
buildStringFilterEq(b, field, f) ==
    IF IsNil(f) THEN b
    ELSE LET sf == Deref(f)
         IN  IF ~IsNil(sf.equals)
             THEN AddCond(b, "=", field, Arg("string", Deref(sf.equals))) ELSE b

\* `"isAdult" = $n` and the like
buildBoolFilter(b, field, f) ==
    IF ~IsNil(f) /\ ~IsNil(Deref(f).equals)
    THEN AddCond(b, "=", field, Arg("bool", Deref(Deref(f).equals))) ELSE b

\* one " AND <col> = $n" inside an EXISTS subquery; s is [subs, args, argIdx]
\* and kind the type of the filter's value
AddSub(s, col, kind, f) ==
    IF ~IsNil(f) /\ ~IsNil(Deref(f).equals)
    THEN [subs |-> Append(s.subs, Cond("=", col, s.argIdx, <<>>)),
          args |-> Append(s.args, Arg(kind, Deref(Deref(f).equals))),
          argIdx |-> s.argIdx + 1]
    ELSE s

\* where.Sections.Some: EXISTS over "_Post_sections" joined with "Section"
buildSectionsFilter(b, f) ==
    IF ~IsNil(f) /\ ~IsNil(Deref(f).some)
    THEN LET some == Deref(Deref(f).some)
             s0 == [subs |-> <<>>, args |-> b.args, argIdx |-> b.argIdx]
             s1 == AddSub(s0, "s.slug", "string", some.slug)
             s2 == AddSub(s1, "s.state", "string", some.state)
         IN  [b EXCEPT !.conds = Append(@, Cond("EXISTS", "sections", 0, s2.subs)),
                       !.args = s2.args,
                       !.argIdx = s2.argIdx]
    ELSE b

\* a variant whose c.state branch reads the slug filter
buildCategoriesFilter_SlugTwice(b, f) ==
    IF ~IsNil(f) /\ ~IsNil(Deref(f).some)
    THEN LET some == Deref(Deref(f).some)
             s0 == [subs |-> <<>>, args |-> b.args, argIdx |-> b.argIdx]
             s1 == AddSub(s0, "c.slug", "string", some.slug)
             s2 == AddSub(s1, "c.state", "string", some.slug)
             s3 == AddSub(s2, "c.isMemberOnly", "bool", some.isMemberOnly)
         IN  [b EXCEPT !.conds = Append(@, Cond("EXISTS", "categories", 0, s3.subs)),
                       !.args = s3.args,
                       !.argIdx = s3.argIdx]
    ELSE b

\* where.Categories.Some: EXISTS over "_Category_posts" joined with "Category"
buildCategoriesFilter(b, f) ==
    IF ~IsNil(f) /\ ~IsNil(Deref(f).some)
    THEN LET some == Deref(Deref(f).some)
             s0 == [subs |-> <<>>, args |-> b.args, argIdx |-> b.argIdx]
             s1 == AddSub(s0, "c.slug", "string", some.slug)
             s2 == AddSub(s1, "c.state", "string", some.state)
             s3 == AddSub(s2, "c.isMemberOnly", "bool", some.isMemberOnly)
         IN  [b EXCEPT !.conds = Append(@, Cond("EXISTS", "categories", 0, s3.subs)),
                       !.args = s3.args,
                       !.argIdx = s3.argIdx]
    ELSE b

\* the WHERE part of QueryPosts
PostListConds(where) ==
    IF IsNil(where) THEN NewBuilder
    ELSE LET w == Deref(where)
             b1 == buildStringFilterIn(NewBuilder, "slug", w.slug)
             b2 == buildStringFilterIn(b1, "state", w.state)
             b3 == buildBoolFilter(b2, "isAdult", w.isAdult)
             b4 == buildBoolFilter(b3, "isMember", w.isMember)
             b5 == buildSectionsFilter(b4, w.sections)
         IN  buildCategoriesFilter(b5, w.categories)

\* the WHERE part of QueryPostsCount
PostCountConds(where) ==
    IF IsNil(where) THEN NewBuilder
    ELSE LET w == Deref(where)
             b1 == buildStringFilterEq(NewBuilder, "slug", w.slug)
             b2 == buildStringFilterEq(b1, "state", w.state)
             b3 == buildBoolFilter(b2, "isAdult", w.isAdult)
             b4 == buildBoolFilter(b3, "isMember", w.isMember)
             b5 == buildSectionsFilter(b4, w.sections)
         IN  buildCategoriesFilter(b5, w.categories)

\* where.PublishedDate of QueryExternals
buildDateFilter(b, f) ==
    IF IsNil(f) THEN b
    ELSE LET df == Deref(f)
             b1 == IF ~IsNil(df.equals)
                   THEN AddCond(b, "=", "e.publishedDate", Arg("time", Deref(df.equals)))
                   ELSE b
         IN  IF IsNil(df.not) THEN b1
             ELSE IF IsNil(Deref(df.not).equals)
                  THEN AddNotNull(b1, "e.publishedDate")
                  ELSE AddCond(b1, "<>", "e.publishedDate",
                               Arg("time", Deref(Deref(df.not).equals)))

\* where.Partner.Slug.Equals: JOIN "Partner" p and p.slug = $n
buildPartnerFilter(b, f) ==
    IF ~IsNil(f) /\ ~IsNil(Deref(f).slug) /\ ~IsNil(Deref(Deref(f).slug).equals)
    THEN [AddCond(b, "=", "p.slug", Arg("string", Deref(Deref(Deref(f).slug).equals)))
             EXCEPT !.join = TRUE]
    ELSE b

\* orderUsesPublished of QueryExternals
orderUsesPublished(orders) ==
    Len(orders) = 0 \/ (Len(orders) > 0 /\ orders[1].Field = "publishedDate")

\* the WHERE part of QueryExternals
ExternalListConds(where, orders) ==
    LET b0 == IF orderUsesPublished(orders)
              THEN AddNotNull(NewBuilder, "e.publishedDate") ELSE NewBuilder
    IN  IF IsNil(where) THEN b0
        ELSE LET w == Deref(where)
                 b1 == buildStringFilterEq(b0, "e.slug", w.slug)
                 b2 == buildStringFilterEq(b1, "e.state", w.state)
                 b3 == buildDateFilter(b2, w.publishedDate)
             IN  buildPartnerFilter(b3, w.partner)

\* the WHERE part of QueryExternalsCount
ExternalCountConds(where) ==
    IF IsNil(where) THEN NewBuilder
    ELSE LET w == Deref(where)
             b1 == buildStringFilterEq(NewBuilder, "e.slug", w.slug)
             b2 == buildStringFilterEq(b1, "e.state", w.state)
         IN  buildPartnerFilter(b2, w.partner)

\* the WHERE part of QueryTopics
TopicListConds(where) ==
    IF IsNil(where) THEN NewBuilder
    ELSE LET w == Deref(where)
             b1 == buildStringFilterIn(NewBuilder, "slug", w.slug)
             b2 == buildStringFilterIn(b1, "name", w.name)
             b3 == buildStringFilterIn(b2, "state", w.state)
             b4 == buildStringFilterIn(b3, "type", w.type)
             b5 == buildStringFilterIn(b4, "style", w.style)
         IN  buildBoolFilter(b5, "isFeatured", w.isFeatured)

\* the WHERE part of QueryTopicsCount
TopicCountConds(where) ==
    IF IsNil(where) THEN NewBuilder
    ELSE LET w == Deref(where)
             b1 == buildStringFilterEq(NewBuilder, "slug", w.slug)
             b2 == buildStringFilterEq(b1, "name", w.name)
             b3 == buildStringFilterEq(b2, "state", w.state)
             b4 == buildStringFilterEq(b3, "type", w.type)
             b5 == buildStringFilterEq(b4, "style", w.style)
         IN  buildBoolFilter(b5, "isFeatured", w.isFeatured)

---------------------------------------------------------------------------
(* Order translators.  An ORDER BY clause is a sequence of terms           *)
(* [col, dir, nulls]; nulls is "LAST" for an explicit NULLS LAST and ""    *)
(* when the clause says nothing about nulls.                               *)

Term(col, dir, nulls) == [col |-> col, dir |-> dir, nulls |-> nulls]

PostDefaultOrder == <<Term("publishedDate", DESC, "")>>
ExternalDefaultOrder == <<Term("e.publishedDate", DESC, "")>>
TopicDefaultOrder ==
    <<Term("sortOrder", ASC, "LAST"), Term("createdAt", DESC, "")>>

\* a variant that compares the direction as it is spelled
NormDir_CaseSensitive(direction, dflt) ==
    IF direction # ASC /\ direction # DESC THEN dflt ELSE direction

\* dir := strings.ToUpper(rule.Direction); anything but ASC/DESC becomes dflt
NormDir(direction, dflt) ==
    LET dir == ToUpper(direction)
    IN  IF dir # ASC /\ dir # DESC THEN dflt ELSE dir

\* a variant whose default case keeps the direction of the rule
buildOrderClause_DirectedDefault(rule) ==
    LET dir == NormDir(rule.Direction, DESC)
    IN  CASE rule.Field = "publishedDate" -> <<Term("publishedDate", dir, "")>>
          [] rule.Field = "updatedAt" -> <<Term("updatedAt", dir, "")>>
          [] rule.Field = "title" -> <<Term("title", dir, "")>>
          [] OTHER -> <<Term("publishedDate", dir, "")>>

\* buildOrderClause
buildOrderClause(rule) ==
    LET dir == NormDir(rule.Direction, DESC)
    IN  CASE rule.Field = "publishedDate" -> <<Term("publishedDate", dir, "")>>
          [] rule.Field = "updatedAt" -> <<Term("updatedAt", dir, "")>>
          [] rule.Field = "title" -> <<Term("title", dir, "")>>
          [] OTHER -> PostDefaultOrder

\* buildExternalOrder
buildExternalOrder(rule) ==
    LET dir == NormDir(rule.Direction, DESC)
    IN  CASE rule.Field = "publishedDate" -> <<Term("e.publishedDate", dir, "")>>
          [] rule.Field = "updatedAt" -> <<Term("e.updatedAt", dir, "")>>
          [] OTHER -> ExternalDefaultOrder

\* buildTopicOrderClause
buildTopicOrderClause(rule) ==
    LET dir == NormDir(rule.Direction, ASC)
    IN  CASE rule.Field = "sortOrder" -> <<Term("sortOrder", dir, "LAST")>>
          [] rule.Field = "createdAt" -> <<Term("createdAt", dir, "")>>
          [] rule.Field = "updatedAt" -> <<Term("updatedAt", dir, "")>>
          [] rule.Field = "name" -> <<Term("name", dir, "")>>
          [] rule.Field = "slug" -> <<Term("slug", dir, "")>>
          [] OTHER -> TopicDefaultOrder

\* if len(orders) > 0 { buildOrderClause(orders[0]) } else { default }
PostOrderBy(orders) ==
    IF Len(orders) > 0 THEN buildOrderClause(orders[1]) ELSE PostDefaultOrder

ExternalOrderBy(orders) ==
    IF Len(orders) > 0 THEN buildExternalOrder(orders[1]) ELSE ExternalDefaultOrder

TopicOrderBy(orders) ==
    IF Len(orders) > 0 THEN buildTopicOrderClause(orders[1]) ELSE TopicDefaultOrder

\* if take > 0 { LIMIT take }; if skip > 0 { OFFSET skip }
LimitOf(take) == IF take > 0 THEN Ptr(take) ELSE Nil
OffsetOf(skip) == IF skip > 0 THEN Ptr(skip) ELSE Nil

\* the statement handed to r.db.QueryContext
Statement(table, b, order, limit, offset) ==
    [table |-> table, conds |-> b.conds, args |-> b.args, join |-> b.join,
     order |-> order, limit |-> limit, offset |-> offset]

NoStatement ==
    [table |-> "", conds |-> <<>>, args |-> <<>>, join |-> FALSE,
     order |-> <<>>, limit |-> Nil, offset |-> Nil]

---------------------------------------------------------------------------
(* The database's side of a statement (PostgreSQL).                        *)

NullableCols == {"publishedDate", "updatedAt", "createdAt", "sortOrder"}
TextSortCols == {"title", "name", "slug"}

\* a column name without its table alias
BareCol(col) ==
    CASE col = "e.slug" -> "slug"
      [] col = "e.state" -> "state"
      [] col = "e.publishedDate" -> "publishedDate"
      [] col = "e.updatedAt" -> "updatedAt"
      [] col = "s.slug" -> "slug"
      [] col = "s.state" -> "state"
      [] col = "c.slug" -> "slug"
      [] col = "c.state" -> "state"
      [] col = "c.isMemberOnly" -> "isMemberOnly"
      [] OTHER -> col

\* <col> = v, on a row; a NULL equals nothing
ColEquals(row, col, v) ==
    LET c == BareCol(col)
    IN  IF c \in NullableCols THEN row[c].valid /\ row[c].v = v
        ELSE IF c = "id" THEN row.id = Atoi(v)   \* the text parameter, as a number
        ELSE row[c] = v

SubsHold(row, subs, args) ==
    \A i \in DOMAIN subs : ColEquals(row, subs[i].col, args[subs[i].ph].v)

\* one predicate of the WHERE clause on one row of the primary table
CondHolds(d, row, c, args) ==
    CASE c.op = "=" /\ c.col = "p.slug" ->
            /\ row.partner.valid
            /\ \E p \in d.Partner : p.id = row.partner.v /\ p.slug = args[c.ph].v
      [] c.op = "=" /\ c.col # "p.slug" -> ColEquals(row, c.col, args[c.ph].v)
      [] c.op = "ANY" ->
            \E i \in DOMAIN args[c.ph].v : ColEquals(row, c.col, args[c.ph].v[i])
      [] c.op = "IS NOT NULL" -> row[BareCol(c.col)].valid
      [] c.op = "<>" ->
            row[BareCol(c.col)].valid /\ row[BareCol(c.col)].v # args[c.ph].v
      [] c.op = "EXISTS" /\ c.col = "sections" ->
            \E j \in d.joins._Post_sections : \E sec \in d.Section :
                j[1] = row.id /\ sec.id = j[2] /\ SubsHold(sec, c.subs, args)
      [] c.op = "EXISTS" /\ c.col = "categories" ->
            \E j \in d.joins._Category_posts : \E cat \in d.Category :
                j[2] = row.id /\ cat.id = j[1] /\ SubsHold(cat, c.subs, args)

\* JOIN "Partner" p ON p.id = e.partner keeps the rows that have a partner
JoinHolds(d, row, st) ==
    st.join => (row.partner.valid /\ HasID(d.Partner, row.partner.v))

\* the rows of the statement's table that satisfy its WHERE clause
Matching(d, st) ==
    {row \in d[st.table] :
        /\ JoinHolds(d, row, st)
        /\ \A i \in DOMAIN st.conds : CondHolds(d, row, st.conds[i], st.args)}

\* the sort key of a row: NULL, or a number (text by its collation)
SortKey(row, col) ==
    LET c == BareCol(col)
    IN  IF c \in NullableCols THEN row[c]
        ELSE IF c \in TextSortCols THEN NotNull(Collate(row[c]))
        ELSE NotNull(row[c])

\* PostgreSQL: NULLS FIRST is the default for DESC and NULLS LAST otherwise
NullsFirst(term) == term.nulls # "LAST" /\ term.dir = DESC

\* -1: a sorts before b; 1: after; 0: the term does not tell them apart
TermCmp(a, b, term) ==
    LET ka == SortKey(a, term.col)
        kb == SortKey(b, term.col)
    IN  CASE ~ka.valid /\ ~kb.valid -> 0
          [] ~ka.valid /\ kb.valid -> IF NullsFirst(term) THEN -1 ELSE 1
          [] ka.valid /\ ~kb.valid -> IF NullsFirst(term) THEN 1 ELSE -1
          [] OTHER ->
                IF ka.v = kb.v THEN 0
                ELSE IF (ka.v < kb.v) = (term.dir = ASC) THEN -1 ELSE 1

RECURSIVE OrderCmp(_, _, _)
OrderCmp(a, b, order) ==
    IF order = <<>> THEN 0
    ELSE LET c == TermCmp(a, b, Head(order))
         IN  IF c # 0 THEN c ELSE OrderCmp(a, b, Tail(order))

RowOrders(S) ==
    {f \in [1..Cardinality(S) -> S] : \A i, j \in DOMAIN f : i # j => f[i] # f[j]}

\* every order in which the database may return the matching rows: rows the
\* ORDER BY does not tell apart come in any order
Orderings(rows, order) ==
    {f \in RowOrders(rows) :
        \A i, j \in DOMAIN f : i < j => OrderCmp(f[i], f[j], order) <= 0}

Max(a, b) == IF a > b THEN a ELSE b
Min(a, b) == IF a < b THEN a ELSE b

\* OFFSET then LIMIT on the ordered rows
Window(rows, limit, offset) ==
    LET from == IF IsNil(offset) THEN 1 ELSE Deref(offset) + 1
        upto == IF IsNil(limit) THEN Len(rows)
                ELSE Min(Len(rows), from + Deref(limit) - 1)
    IN  SubSeq(rows, from, upto)

---------------------------------------------------------------------------
(* Entity values.                                                          *)

NoMeta ==
    [heroImageID |-> 0, ogImageID |-> 0, heroVideoID |-> 0, topicsID |-> 0,
     relatedsOneID |-> 0, relatedsTwoID |-> 0, partnerID |-> 0]

\* getMetaInt: 0 when the key is absent
getMetaInt(m, key) == m[key]

\* the zero value of Post
ZeroPost ==
    [ID |-> "", Slug |-> "", Title |-> "", State |-> "", IsAdult |-> FALSE,
     PublishedDate |-> <<>>, UpdatedAt |-> <<>>,
     Sections |-> {}, Categories |-> {},
     Writers |-> {}, Photographers |-> {}, CameraMan |-> {}, Designers |-> {},
     Engineers |-> {}, Vocals |-> {}, Tags |-> {}, TagsAlgo |-> {},
     HeroVideo |-> Nil, HeroImage |-> Nil, OgImage |-> Nil,
     Relateds |-> {}, RelatedsOne |-> Nil, RelatedsTwo |-> Nil,
     Topics |-> Nil, Metadata |-> NoMeta]

\* rows.Scan and the assignments after it, in QueryPosts / QueryPostByUnique
DecodePost(row) ==
    [ZeroPost EXCEPT
        !.ID = Itoa(row.id), !.Slug = row.slug, !.Title = row.title,
        !.State = row.state, !.IsAdult = row.isAdult,
        !.PublishedDate = FormatTime(row.publishedDate),
        !.UpdatedAt = FormatTime(row.updatedAt),
        !.Metadata = [NoMeta EXCEPT
            !.heroImageID = nullableInt(row.heroImage),
            !.ogImageID = nullableInt(row.og_image),
            !.heroVideoID = nullableInt(row.heroVideo),
            !.topicsID = nullableInt(row.topics),
            !.relatedsOneID = nullableInt(row.relatedsOne),
            !.relatedsTwoID = nullableInt(row.relatedsTwo)]]

\* the projection of fetchRelatedPosts and fetchPostsByIDs
\* a variant that also copies the state of the referenced article
NarrowPost_WithState(row) ==
    [ZeroPost EXCEPT
        !.ID = Itoa(row.id), !.Slug = row.slug, !.Title = row.title,
        !.State = row.state,
        !.Metadata = [NoMeta EXCEPT !.heroImageID = nullableInt(row.heroImage)]]

NarrowPost(row) ==
    [ZeroPost EXCEPT
        !.ID = Itoa(row.id), !.Slug = row.slug, !.Title = row.title,
        !.Metadata = [NoMeta EXCEPT !.heroImageID = nullableInt(row.heroImage)]]

\* rows.Scan and the assignments after it, in QueryExternals
DecodeExternal(row) ==
    [ID |-> Itoa(row.id), Slug |-> row.slug, State |-> row.state,
     PublishedDate |-> FormatTime(row.publishedDate),
     UpdatedAt |-> FormatTime(row.updatedAt),
     Partner |-> Nil, Tags |-> {},
     Metadata |-> [NoMeta EXCEPT !.partnerID = nullableInt(row.partner)]]

\* rows.Scan and the assignments after it, in QueryTopics / QueryTopicByUnique
DecodeTopic(row) ==
    [ID |-> Itoa(row.id), Name |-> row.name, Slug |-> row.slug,
     SortOrder |-> IF row.sortOrder.valid THEN Ptr(row.sortOrder.v) ELSE Nil,
     State |-> row.state,
     CreatedAt |-> FormatTime(row.createdAt),
     UpdatedAt |-> FormatTime(row.updatedAt),
     HeroImage |-> Nil, OgImage |-> Nil, Tags |-> {}, SlideshowImages |-> {},
     Metadata |-> [NoMeta EXCEPT
            !.heroImageID = nullableInt(row.heroImage),
            !.ogImageID = nullableInt(row.og_image)]]

StaticsHost == "https://statics"

\* makeURL inside buildResizedURLs
makeURL(fileID, size, extension) ==
    IF size = "" THEN <<StaticsHost, "/", fileID, ".", extension>>
    ELSE <<StaticsHost, "/", fileID, "-", size, ".", extension>>

\* a variant that keeps an empty extension
buildResizedURLs_KeepsEmptyExt(fileID, ext) ==
    IF fileID = ""
    THEN [Original |-> <<>>, W480 |-> <<>>, W800 |-> <<>>, W1200 |-> <<>>,
          W1600 |-> <<>>, W2400 |-> <<>>]
    ELSE [Original |-> makeURL(fileID, "", ext),
          W480 |-> makeURL(fileID, "w480", ext),
          W800 |-> makeURL(fileID, "w800", ext),
          W1200 |-> makeURL(fileID, "w1200", ext),
          W1600 |-> makeURL(fileID, "w1600", ext),
          W2400 |-> makeURL(fileID, "w2400", ext)]

\* Repo.buildResizedURLs
buildResizedURLs(fileID, ext) ==
    IF fileID = ""
    THEN [Original |-> <<>>, W480 |-> <<>>, W800 |-> <<>>, W1200 |-> <<>>,
          W1600 |-> <<>>, W2400 |-> <<>>]
    ELSE LET e == IF ext = "" THEN "jpg" ELSE ext
         IN  [Original |-> makeURL(fileID, "", e),
              W480 |-> makeURL(fileID, "w480", e),
              W800 |-> makeURL(fileID, "w800", e),
              W1200 |-> makeURL(fileID, "w1200", e),
              W1600 |-> makeURL(fileID, "w1600", e),
              W2400 |-> makeURL(fileID, "w2400", e)]

\* the Photo built from a row of "Image"
PhotoOf(im) ==
    [ID |-> Itoa(im.id),
     Resized |-> buildResizedURLs(im.fileID, im.ext),
     ResizedWebp |-> buildResizedURLs(im.fileID, "webp"),
     Metadata |-> NoMeta]

\* &Photo{} carrying only the id of the image it stands for (fetchVideos)
PendingPhoto(id) ==
    [ID |-> "", Resized |-> buildResizedURLs("", ""),
     ResizedWebp |-> buildResizedURLs("", ""),
     Metadata |-> [NoMeta EXCEPT !.heroImageID = id]]

---------------------------------------------------------------------------
(* The bulk relation queries.  Each fetch returns [m, imgs, q, err]: the   *)
(* map it built, the image ids its rows surfaced, the query it issued (a   *)
(* sequence of zero or one entry [kind, ids, failed]) and whether it       *)
(* returned an error.  fail is the set of relation queries the database    *)
(* fails in this call.                                                     *)

RECURSIVE SetToSeq(_)
SetToSeq(S) ==
    IF S = {} THEN <<>>
    ELSE LET x == CHOOSE y \in S : TRUE IN <<x>> \o SetToSeq(S \ {x})

RECURSIVE Flatten(_)
Flatten(ss) == IF ss = <<>> THEN <<>> ELSE Head(ss) \o Flatten(Tail(ss))

EmptyMap == <<>>
Lookup(m, k) == IF k \in DOMAIN m THEN m[k] ELSE {}
LookupPtr(m, k) == IF k \in DOMAIN m THEN Ptr(m[k]) ELSE Nil

Query(kind, ids, failed) == [kind |-> kind, ids |-> ids, failed |-> failed]

Fetched(m, imgs, q, err) == [m |-> m, imgs |-> imgs, q |-> q, err |-> err]

\* a fetch that sends its query even when it has no ids to ask for
Fetch_AlwaysQueries(kind, ids, fail, m, imgs) ==
    IF kind \in fail
    THEN Fetched(EmptyMap, <<>>, <<Query(kind, ids, TRUE)>>, TRUE)
    ELSE Fetched(m, imgs, <<Query(kind, ids, FALSE)>>, FALSE)

\* the shape shared by the fetch functions: no query for an empty id list,
\* the empty result with the error when the query fails
Fetch(kind, ids, fail, m, imgs) ==
    IF Len(ids) = 0 THEN Fetched(EmptyMap, <<>>, <<>>, FALSE)
    ELSE IF kind \in fail
         THEN Fetched(EmptyMap, <<>>, <<Query(kind, ids, TRUE)>>, TRUE)
         ELSE Fetched(m, imgs, <<Query(kind, ids, FALSE)>>, FALSE)


SectionOf(r) == [ID |-> Itoa(r.id), Slug |-> r.slug, State |-> r.state]
CategoryOf(r) ==
    [ID |-> Itoa(r.id), Slug |-> r.slug, State |-> r.state,
     IsMemberOnly |-> r.isMemberOnly]
ContactOf(r) == [ID |-> Itoa(r.id), Name |-> r.name]
TagOf(r) == [ID |-> Itoa(r.id), Slug |-> r.slug]

\* fetchSections: "_Post_sections" ps JOIN "Section" s ON s.id = ps."B"
fetchSections(d, postIDs, fail) ==
    LET Rows(pid) ==
            {SectionOf(r) : r \in {x \in d.Section : <<pid, x.id>> \in d.joins._Post_sections}}
    IN  Fetch("sections", postIDs, fail, [k \in SeqToSet(postIDs) |-> Rows(k)], <<>>)

\* fetchCategories: "_Category_posts" cp JOIN "Category" c ON c.id = cp."A"
fetchCategories(d, postIDs, fail) ==
    LET Rows(pid) ==
            {CategoryOf(r) : r \in {x \in d.Category : <<x.id, pid>> \in d.joins._Category_posts}}
    IN  Fetch("categories", postIDs, fail, [k \in SeqToSet(postIDs) |-> Rows(k)], <<>>)

\* fetchContacts: <table> t JOIN "Contact" c ON c.id = t."A" WHERE t."B" = ANY
fetchContacts(d, table, postIDs, fail) ==
    LET Rows(pid) ==
            {ContactOf(r) : r \in {x \in d.Contact : <<x.id, pid>> \in d.joins[table]}}
    IN  Fetch(table, postIDs, fail, [k \in SeqToSet(postIDs) |-> Rows(k)], <<>>)

\* fetchTags, fetchExternalTags: <table> t JOIN "Tag" tg ON tg.id = t."B"
fetchTags(d, table, ownerIDs, fail) ==
    LET Rows(oid) ==
            {TagOf(r) : r \in {x \in d.Tag : <<oid, x.id>> \in d.joins[table]}}
    IN  Fetch(table, ownerIDs, fail, [k \in SeqToSet(ownerIDs) |-> Rows(k)], <<>>)

\* fetchExternalTags
fetchExternalTags(d, table, externalIDs, fail) ==
    fetchTags(d, table, externalIDs, fail)

\* fetchTopicTags: "Tag_topics" t JOIN "Tag" tg ON tg.id = t."B"
fetchTopicTags(d, topicIDs, fail) ==
    fetchTags(d, "Tag_topics", topicIDs, fail)

\* a variant that reads the join table in one column order only
RelatedRows_OneWay(d, postIDs) ==
    LET ids == SeqToSet(postIDs)
        E == d.joins._Post_relateds
    IN  {<<e[1], e[2]>> : e \in {x \in E : x[1] \in ids /\ HasID(d.Post, x[2])}}

\* the rows <<post_id, p.id>> of the UNION of fetchRelatedPosts
RelatedRows(d, postIDs) ==
    LET ids == SeqToSet(postIDs)
        E == d.joins._Post_relateds
    IN  {<<e[1], e[2]>> : e \in {x \in E : x[1] \in ids /\ HasID(d.Post, x[2])}}
        \cup
        {<<e[2], e[1]>> : e \in {x \in E : x[2] \in ids /\ HasID(d.Post, x[1])}}

\* the image ids a sequence of Post rows surfaces: those with a hero image
HeroIDs(rows) ==
    Flatten([i \in DOMAIN rows |->
                IF rows[i].heroImage.valid THEN <<rows[i].heroImage.v>> ELSE <<>>])

\* fetchRelatedPosts
fetchRelatedPosts(d, postIDs, fail) ==
    LET rr == RelatedRows(d, postIDs)
        Rows(pid) == {NarrowPost(RowByID(d.Post, r[2])) : r \in {x \in rr : x[1] = pid}}
        seq == SetToSeq(rr)
        imgs == HeroIDs([i \in DOMAIN seq |-> RowByID(d.Post, seq[i][2])])
    IN  Fetch("relateds", postIDs, fail, [k \in SeqToSet(postIDs) |-> Rows(k)], imgs)

\* fetchPostsByIDs; m maps the id of each post found to its projection
fetchPostsByIDs(d, ids, fail) ==
    LET found == {r \in d.Post : r.id \in SeqToSet(ids)}
    IN  Fetch("postsByIDs", ids, fail,
              [k \in {r.id : r \in found} |->
                                    NarrowPost(RowByID(d.Post, k))],
              HeroIDs(SetToSeq(found)))

\* fetchVideos; m maps the id of each video found to its Video
fetchVideos(d, videoIDs, fail) ==
    LET found == {r \in d.Video : r.id \in SeqToSet(videoIDs)}
        seq == SetToSeq(found)
        imgs == Flatten([i \in DOMAIN seq |->
                    IF seq[i].heroImage.valid THEN <<seq[i].heroImage.v>> ELSE <<>>])
        VideoOf(r) ==
            [ID |-> Itoa(r.id),
             HeroImage |-> IF r.heroImage.valid
                           THEN Ptr(PendingPhoto(r.heroImage.v)) ELSE Nil]
    IN  Fetch("videos", videoIDs, fail,
              [k \in {r.id : r \in found} |->
                                    VideoOf(RowByID(d.Video, k))],
              imgs)

\* fetchTopics: SELECT id, slug FROM "Topic"
fetchTopics(d, ids, fail) ==
    LET found == {r \in d.Topic : r.id \in SeqToSet(ids)}
    IN  Fetch("topics", ids, fail,
              [k \in {r.id : r \in found} |->
                                    [ID |-> "", Slug |-> RowByID(d.Topic, k).slug]],
              <<>>)

\* fetchImages
fetchImages(d, ids, fail) ==
    LET found == {r \in d.Image : r.id \in SeqToSet(ids)}
    IN  Fetch("images", ids, fail,
              [k \in {r.id : r \in found} |->
                                    PhotoOf(RowByID(d.Image, k))],
              <<>>)

\* fetchPartners
fetchPartners(d, ids, fail) ==
    LET found == {r \in d.Partner : r.id \in SeqToSet(ids)}
    IN  Fetch("partners", ids, fail,
              [k \in {r.id : r \in found} |->
                                    [ID |-> Itoa(k), Slug |-> RowByID(d.Partner, k).slug]],
              <<>>)

\* fetchTopicSlideshowImages: "Topic_slideshow_images" t JOIN "Image" im
fetchTopicSlideshowImages(d, topicIDs, fail) ==
    LET J == {j \in d.joins.Topic_slideshow_images :
                j[1] \in SeqToSet(topicIDs) /\ HasID(d.Image, j[2])}
        seq == SetToSeq(J)
        Rows(tid) == {PhotoOf(RowByID(d.Image, j[2])) : j \in {x \in J : x[1] = tid}}
    IN  Fetch("slideshow", topicIDs, fail, [k \in SeqToSet(topicIDs) |-> Rows(k)],
              [i \in DOMAIN seq |-> seq[i][2]])

---------------------------------------------------------------------------
(* Hydration.  enrichPosts and enrichTopics return [err, items, q]: on an  *)
(* error the items are as they came in and q holds the queries issued up   *)
(* to the failing one.                                                     *)

Enriched(err, items, q) == [err |-> err, items |-> items, q |-> q]

\* the ids of the entities whose ID parses to a non-zero number
IDsOf(items) ==
    Flatten([i \in DOMAIN items |->
                IF Atoi(items[i].ID) = 0 THEN <<>> ELSE <<Atoi(items[i].ID)>>])

\* the values of one metadata key over the batch, those > 0
MetaIDs(items, key) ==
    Flatten([i \in DOMAIN items |->
                IF getMetaInt(items[i].Metadata, key) > 0
                THEN <<getMetaInt(items[i].Metadata, key)>> ELSE <<>>])

\* heroImageID and ogImageID of each row, in the order of the rows
OwnImageIDs(items) ==
    Flatten([i \in DOMAIN items |->
                (IF getMetaInt(items[i].Metadata, "heroImageID") > 0
                 THEN <<getMetaInt(items[i].Metadata, "heroImageID")>> ELSE <<>>)
                \o
                (IF getMetaInt(items[i].Metadata, "ogImageID") > 0
                 THEN <<getMetaInt(items[i].Metadata, "ogImageID")>> ELSE <<>>)])

\* m[id] when id > 0 and the map has it, nil otherwise
MetaPtr(m, id) == IF id > 0 THEN LookupPtr(m, id) ELSE Nil

\* Repo.enrichPosts
enrichPosts(d, posts, fail) ==
    IF Len(posts) = 0 THEN Enriched(FALSE, posts, <<>>)
    ELSE
    LET postIDs == IDsOf(posts)
        sec == fetchSections(d, postIDs, fail)
        cat == fetchCategories(d, postIDs, fail)
        wri == fetchContacts(d, "_Post_writers", postIDs, fail)
        pho == fetchContacts(d, "_Post_photographers", postIDs, fail)
        cam == fetchContacts(d, "_Post_camera_man", postIDs, fail)
        des == fetchContacts(d, "_Post_designers", postIDs, fail)
        eng == fetchContacts(d, "_Post_engineers", postIDs, fail)
        voc == fetchContacts(d, "_Post_vocals", postIDs, fail)
        tag == fetchTags(d, "_Post_tags", postIDs, fail)
        alg == fetchTags(d, "_Post_tags_algo", postIDs, fail)
        rel == fetchRelatedPosts(d, postIDs, fail)
        relatedSinglesIDs ==
            MetaIDs(posts, "relatedsOneID") \o MetaIDs(posts, "relatedsTwoID")
        sin == fetchPostsByIDs(d, relatedSinglesIDs, fail)
        vid == fetchVideos(d, MetaIDs(posts, "heroVideoID"), fail)
        imageIDs == rel.imgs \o sin.imgs \o OwnImageIDs(posts) \o vid.imgs
        top == fetchTopics(d, MetaIDs(posts, "topicsID"), fail)
        img == fetchImages(d, imageIDs, fail)
        q1 == sec.q
        q2 == q1 \o cat.q
        q3 == q2 \o wri.q \o pho.q \o cam.q \o des.q \o eng.q \o voc.q
                 \o tag.q \o alg.q \o rel.q
        q4 == q3 \o sin.q
        q5 == q4 \o vid.q \o top.q \o img.q
        Attach(p) ==
            LET id == Atoi(p.ID)
            IN  [p EXCEPT
                    !.Sections = Lookup(sec.m, id),
                    !.Categories = Lookup(cat.m, id),
                    !.Writers = Lookup(wri.m, id),
                    !.Photographers = Lookup(pho.m, id),
                    !.CameraMan = Lookup(cam.m, id),
                    !.Designers = Lookup(des.m, id),
                    !.Engineers = Lookup(eng.m, id),
                    !.Vocals = Lookup(voc.m, id),
                    !.Tags = Lookup(tag.m, id),
                    !.TagsAlgo = Lookup(alg.m, id),
                    !.Relateds = Lookup(rel.m, id),
                    !.HeroImage =
                        IF getMetaInt(p.Metadata, "heroImageID") > 0
                        THEN LookupPtr(img.m, getMetaInt(p.Metadata, "heroImageID"))
                        ELSE @,
                    !.OgImage =
                        IF getMetaInt(p.Metadata, "ogImageID") > 0
                        THEN LookupPtr(img.m, getMetaInt(p.Metadata, "ogImageID"))
                        ELSE @,
                    !.HeroVideo =
                        IF getMetaInt(p.Metadata, "heroVideoID") > 0
                        THEN LookupPtr(vid.m, getMetaInt(p.Metadata, "heroVideoID"))
                        ELSE @,
                    !.Topics = MetaPtr(top.m, getMetaInt(p.Metadata, "topicsID")),
                    !.RelatedsOne =
                        MetaPtr(sin.m, getMetaInt(p.Metadata, "relatedsOneID")),
                    !.RelatedsTwo =
                        MetaPtr(sin.m, getMetaInt(p.Metadata, "relatedsTwoID"))]
    IN  IF sec.err THEN Enriched(TRUE, posts, q1)
        ELSE IF cat.err THEN Enriched(TRUE, posts, q2)
        ELSE IF rel.err THEN Enriched(TRUE, posts, q3)
        ELSE IF sin.err THEN Enriched(TRUE, posts, q4)
        ELSE IF img.err THEN Enriched(TRUE, posts, q5)
        ELSE Enriched(FALSE, [i \in DOMAIN posts |-> Attach(posts[i])], q5)

\* Repo.enrichTopics
enrichTopics(d, topics, fail) ==
    IF Len(topics) = 0 THEN Enriched(FALSE, topics, <<>>)
    ELSE
    LET topicIDs == IDsOf(topics)
        tag == fetchTopicTags(d, topicIDs, fail)
        sli == fetchTopicSlideshowImages(d, topicIDs, fail)
        imageIDs == OwnImageIDs(topics) \o sli.imgs
        img == fetchImages(d, imageIDs, fail)
        q == tag.q \o sli.q \o img.q
        Attach(t) ==
            LET id == Atoi(t.ID)
            IN  [t EXCEPT
                    !.HeroImage =
                        IF getMetaInt(t.Metadata, "heroImageID") > 0
                        THEN LookupPtr(img.m, getMetaInt(t.Metadata, "heroImageID"))
                        ELSE @,
                    !.OgImage =
                        IF getMetaInt(t.Metadata, "ogImageID") > 0
                        THEN LookupPtr(img.m, getMetaInt(t.Metadata, "ogImageID"))
                        ELSE @,
                    !.Tags = Lookup(tag.m, id),
                    !.SlideshowImages = Lookup(sli.m, id)]
    IN  IF img.err THEN Enriched(TRUE, topics, q)
        ELSE Enriched(FALSE, [i \in DOMAIN topics |-> Attach(topics[i])], q)

\* the relation part of QueryExternals: partners and tags, errors dropped
enrichExternals(d, result, fail) ==
    LET par == fetchPartners(d, MetaIDs(result, "partnerID"), fail)
        tag == fetchExternalTags(d, "_External_tags", IDsOf(result), fail)
        Attach(e) ==
            [e EXCEPT
                !.Partner =
                    IF getMetaInt(e.Metadata, "partnerID") > 0
                    THEN LookupPtr(par.m, getMetaInt(e.Metadata, "partnerID"))
                    ELSE @,
                !.Tags = Lookup(tag.m, Atoi(e.ID))]
    IN  Enriched(FALSE, [i \in DOMAIN result |-> Attach(result[i])], par.q \o tag.q)

---------------------------------------------------------------------------
(* The untyped arguments of a request (interface{}) and their decoding:    *)
(* decodeInto, the Decode... functions, parseOrderRules, parsePagination.  *)

\* an interface{} value as the GraphQL layer hands it over: nil, a string, a
\* bool, an int, a []interface{} or a map[string]interface{} (a sequence of
\* <<key, value>> pairs with distinct keys)
RawNil == [t |-> "nil"]
RawString(s) == [t |-> "string", s |-> s]
RawBool(b) == [t |-> "bool", b |-> b]
RawInt(n) == [t |-> "int", n |-> n]
RawList(l) == [t |-> "list", l |-> l]
RawMap(m) == [t |-> "map", m |-> m]

Keys(m) == {m[i][1] : i \in DOMAIN m}
HasKey(m, k) == k \in Keys(m)
ValueOf(m, k) == m[CHOOSE i \in DOMAIN m : m[i][1] = k][2]

\* the fields of the target structs, by their mapstructure tags
StructFields(T) ==
    CASE T = "StringFilter" ->
            {<<"equals", "*string">>, <<"in", "[]string">>, <<"not", "StringFilter">>}
      [] T = "BooleanFilter" -> {<<"equals", "*bool">>}
      [] T = "SectionWhereInput" ->
            {<<"slug", "StringFilter">>, <<"state", "StringFilter">>}
      [] T = "SectionManyRelationFilter" -> {<<"some", "SectionWhereInput">>}
      [] T = "CategoryWhereInput" ->
            {<<"slug", "StringFilter">>, <<"state", "StringFilter">>,
             <<"isMemberOnly", "BooleanFilter">>}
      [] T = "CategoryManyRelationFilter" -> {<<"some", "CategoryWhereInput">>}
      [] T = "IDFilter" -> {<<"equals", "*string">>}
      [] T = "PostTopicsWhereInput" -> {<<"id", "IDFilter">>}
      [] T = "PostWhereInput" ->
            {<<"slug", "StringFilter">>, <<"sections", "SectionManyRelationFilter">>,
             <<"categories", "CategoryManyRelationFilter">>,
             <<"state", "StringFilter">>, <<"isAdult", "BooleanFilter">>,
             <<"isMember", "BooleanFilter">>, <<"isFeatured", "BooleanFilter">>,
             <<"topics", "PostTopicsWhereInput">>}
      [] T = "PostWhereUniqueInput" -> {<<"id", "*string">>, <<"slug", "*string">>}

FieldNames(T) == {f[1] : f \in StructFields(T)}
FieldType(T, name) == (CHOOSE f \in StructFields(T) : f[1] = name)[2]

\* what a decoding hands back: the error (nil or not) and the decoded value
Decoded(err, v) == [err |-> err, v |-> v]

\* mapstructure's Decoder.Decode under the configuration of decodeInto
\* (TagName and Result only: no weak typing, unused keys are not an error).
\* A nil input leaves the target at its zero value; a value of another type
\* than the target's is an error; a key of the map that no field is tagged
\* with is passed over; a field without a key keeps its zero value.
RECURSIVE Decode(_, _)
Decode(raw, T) ==
    IF raw.t = "nil" THEN Decoded(FALSE, <<>>)
    ELSE IF T = "*string"
    THEN IF raw.t = "string" THEN Decoded(FALSE, Ptr(raw.s)) ELSE Decoded(TRUE, <<>>)
    ELSE IF T = "*bool"
    THEN IF raw.t = "bool" THEN Decoded(FALSE, Ptr(raw.b)) ELSE Decoded(TRUE, <<>>)
    ELSE IF T = "[]string"
    THEN IF raw.t = "list" /\ \A i \in DOMAIN raw.l : raw.l[i].t \in {"string", "nil"}
         THEN Decoded(FALSE, [i \in DOMAIN raw.l |->
                                IF raw.l[i].t = "string" THEN raw.l[i].s ELSE ""])
         ELSE Decoded(TRUE, <<>>)
    ELSE IF raw.t # "map" THEN Decoded(TRUE, <<>>)
    ELSE LET field == [name \in FieldNames(T) |->
                          IF HasKey(raw.m, name)
                          THEN Decode(ValueOf(raw.m, name), FieldType(T, name))
                          ELSE Decoded(FALSE, <<>>)]
         IN  IF \E name \in FieldNames(T) : field[name].err
             THEN Decoded(TRUE, <<>>)
             ELSE Decoded(FALSE, Ptr([name \in FieldNames(T) |-> field[name].v]))

\* decodeInto
decodeInto(input, T) == Decode(input, T)

\* DecodePostWhere
DecodePostWhere(input) ==
    IF input.t = "nil" THEN Decoded(FALSE, Nil)
    ELSE LET d == decodeInto(input, "PostWhereInput")
         IN  IF d.err THEN Decoded(TRUE, Nil) ELSE d

\* DecodePostWhereUnique
DecodePostWhereUnique(input) ==
    IF input.t = "nil" THEN Decoded(FALSE, Nil)
    ELSE LET d == decodeInto(input, "PostWhereUniqueInput")
         IN  IF d.err THEN Decoded(TRUE, Nil) ELSE d

\* fmt.Sprintf("%v", dir) of a string, a bool, nil or an int of one digit,
\* as the characters of the text
SprintfV(raw) ==
    CASE raw.t = "string" -> raw.s
      [] raw.t = "bool" -> IF raw.b THEN <<"t", "r", "u", "e">>
                           ELSE <<"f", "a", "l", "s", "e">>
      [] raw.t = "nil" -> <<"<", "n", "i", "l", ">">>
      [] raw.t = "int" -> <<Itoa(raw.n)>>

\* parseOrderRules: the rules of the entries that are maps, in the order of
\* the list; an input that is not a list has no rules, an entry that is not
\* a map is passed over.  (The keys of one entry are visited in the order of
\* Go's map iteration; the entries here have one key each.)
RECURSIVE parseOrderRules_entries(_)
parseOrderRules_entries(list) ==
    IF Len(list) = 0 THEN <<>>
    ELSE LET item == Head(list)
             rules == IF item.t # "map" THEN <<>>
                      ELSE [i \in DOMAIN item.m |->
                              OrderRule(item.m[i][1], SprintfV(item.m[i][2]))]
         IN  rules \o parseOrderRules_entries(Tail(list))

parseOrderRules(input) ==
    IF input.t # "list" THEN <<>> ELSE parseOrderRules_entries(input.l)

\* asInt
asInt(val) == IF val.t = "int" THEN val.n ELSE 0

\* parsePagination
parsePagination(args) ==
    LET take == asInt(args.take)
        skip == asInt(args.skip)
    IN  [take |-> take, skip |-> IF skip < 0 THEN 0 ELSE skip]

\* p.Args of a resolver; an argument that was not given reads as nil
Args(where, orderBy, take, skip) ==
    [where |-> where, orderBy |-> orderBy, take |-> take, skip |-> skip]

---------------------------------------------------------------------------
(* The inputs and the result of a call.                                    *)

\* the instants of a call, in seconds after its entry: the deadline of the
\* caller's context, and when the primary statement is issued, when the
\* hydration pass is entered and when it issues its relation queries
Instants(parent, primary, enrich, hydrate) ==
    [parent |-> parent, primary |-> primary, enrich |-> enrich,
     hydrate |-> hydrate]

\* a call whose queries are all answered at once, under a context without
\* a deadline
Untimed == Instants(NoDeadline, 0, 0, 0)

Call(op, where, orders, take, skip, fail) ==
    [op |-> op, where |-> where, orders |-> orders, take |-> take,
     skip |-> skip, fail |-> fail, at |-> Untimed]

NoCall == Call("", Nil, <<>>, 0, 0, {})

\* what a call hands back: the error (nil or not), and the entities of a
\* list or unique query or the number of a count query
Ret(err, value) == [err |-> err, value |-> value, count |-> 0]
RetCount(err, n) == [err |-> err, value |-> <<>>, count |-> n]

---------------------------------------------------------------------------
(* The cache: GenerateCacheKey, Cache.Get and Cache.Set.                   *)

GenerateCacheKey(prefix, params) == <<prefix, params>>

\* one Get or Set as the call issued it: after counts the database
\* statements the call had issued before it
CacheOp(op, key, after, failed) ==
    [op |-> op, key |-> key, after |-> after, failed |-> failed]

\* Cache.Get into a zero-valued destination: a failing read finds nothing,
\* a read that finds nothing leaves the destination as it was
CacheGet(key, fail) ==
    IF "cacheGet" \in fail \/ key \notin DOMAIN cache
    THEN [found |-> FALSE, err |-> "cacheGet" \in fail, value |-> Ret(FALSE, <<>>)]
    ELSE [found |-> TRUE, err |-> FALSE, value |-> cache[key]]

\* Cache.Set: the cache afterwards; a failing write stores nothing
CacheSet(key, value, fail) ==
    IF "cacheSet" \in fail THEN cache
    ELSE [k \in DOMAIN cache \cup {key} |-> IF k = key THEN value ELSE cache[k]]

\* a read that does not ask whether the cache is configured and enabled
CacheRead_IgnoresEnabled(key, fail) ==
    LET g == CacheGet(key, fail)
    IN  [hit |-> g.found, entry |-> g.value,
         ops |-> <<CacheOp("Get", key, 0, g.err)>>]

\* a read that takes a failing Get for a hit
CacheRead_ErrorIsHit(key, fail) ==
    IF cacheOn
    THEN LET g == CacheGet(key, fail)
         IN  [hit |-> g.found \/ g.err, entry |-> g.value,
              ops |-> <<CacheOp("Get", key, 0, g.err)>>]
    ELSE [hit |-> FALSE, entry |-> Ret(FALSE, <<>>), ops |-> <<>>]

\* the read at the head of a cached method:
\*   if r.cache != nil && r.cache.Enabled() {
\*       if found, _ := r.cache.Get(ctx, cacheKey, &cached); found { return cached, nil } }
CacheRead(key, fail) ==
    IF cacheOn
    THEN LET g == CacheGet(key, fail)
         IN  [hit |-> g.found, entry |-> g.value,
              ops |-> <<CacheOp("Get", key, 0, g.err)>>]
    ELSE [hit |-> FALSE, entry |-> Ret(FALSE, <<>>), ops |-> <<>>]

\* the write at the tail of a cached method:
\*   if r.cache != nil && r.cache.Enabled() { _ = r.cache.Set(ctx, cacheKey, value) }
CacheWrite(key, value, after, fail) ==
    IF cacheOn
    THEN [cache |-> CacheSet(key, value, fail),
          ops |-> <<CacheOp("Set", key, after, "cacheSet" \in fail)>>]
    ELSE [cache |-> cache, ops |-> <<>>]

\* a return that does not reach the write
NoWrite == [cache |-> cache, ops |-> <<>>]

\* no call to remember
NoHist == [key |-> <<"", Nil>>, call |-> NoCall, ret |-> Ret(FALSE, <<>>), full |-> <<>>]

\* what a call leaves behind in the cache, in the log of its cache
\* operations and in the record of the last miss: c the call, rd its read,
\* wr its write, f and r what the database path produced.  The record keeps
\* the last call that missed with no cache operation failing.
Use(c, rd, wr, key, f, r) ==
    [cache |-> wr.cache,
     ops |-> rd.ops \o wr.ops,
     hist |-> IF cacheOn /\ ~rd.hit
              THEN IF \A i \in DOMAIN (rd.ops \o wr.ops) : ~(rd.ops \o wr.ops)[i].failed
                   THEN [key |-> key, call |-> c, ret |-> r, full |-> f]
                   ELSE NoHist
              ELSE hist]

\* a return of a method, or of a path of one, that has no cache code
NoCacheUse == [cache |-> cache, ops |-> <<>>, hist |-> hist]

\* key parameters that leave the filter out
ListParams_NoWhere(where, orders, take, skip) ==
    [where |-> Nil, orders |-> orders, take |-> take, skip |-> skip]

\* the parameters a list method makes its cache key from
ListParams(where, orders, take, skip) ==
    [where |-> where, orders |-> orders, take |-> take, skip |-> skip]

---------------------------------------------------------------------------
(* The calls.  Every action is one whole call of a Repo method, from its   *)
(* arguments to what it returns.                                           *)

RowIDs(rows) == [i \in DOMAIN rows |-> rows[i].id]

\* the call returns: c its inputs, st the statement it ran (NoStatement when
\* it ran none), f the ids of the statement's rows before LIMIT/OFFSET, q the
\* relation queries, r the return value, cx what it did to the cache
Finish(c, st, f, q, r, cx) ==
    /\ pc' = "done"
    /\ call' = c
    /\ stmt' = st
    /\ full' = f
    /\ queries' = q
    /\ ret' = r
    /\ cache' = cx.cache
    /\ cacheOps' = cx.ops
    /\ hist' = cx.hist
    /\ UNCHANGED <<db, cacheOn, goroutines, heap>>

\* the end of a cached method after the hydration en: the result r is
\* handed back and, when the method stores it, written to the cache first
FinishHydrated(c, st, f, en, r, stored, key, rd, fail) ==
    Finish(c, st, f, en.q, r,
           Use(c, rd,
               IF stored THEN CacheWrite(key, r, 1 + Len(en.q), fail) ELSE NoWrite,
               key, f, r))

\* an end of the list methods that stores what it returns, errors included
FinishList_StoresFailed(c, st, f, n, en, key, rd, fail) ==
    FinishHydrated(c, st, f, en,
                   IF n = 0 THEN Ret(FALSE, <<>>)
                   ELSE IF en.err THEN Ret(TRUE, <<>>)
                   ELSE Ret(FALSE, en.items),
                   n # 0, key, rd, fail)

\* the end of QueryPosts and QueryTopics over n scanned rows: an empty
\* result is returned before the hydration, a failed hydration is an error,
\* and neither is stored
FinishList(c, st, f, n, en, key, rd, fail) ==
    FinishHydrated(c, st, f, en,
                   IF n = 0 THEN Ret(FALSE, <<>>)
                   ELSE IF en.err THEN Ret(TRUE, <<>>)
                   ELSE Ret(FALSE, en.items),
                   n # 0 /\ ~en.err, key, rd, fail)

\* the end of QueryExternals: the result is returned and stored
FinishExternals(c, st, f, en, key, rd, fail) ==
    FinishHydrated(c, st, f, en, Ret(FALSE, en.items), TRUE, key, rd, fail)

\* the end of QueryPostByUnique and QueryTopicByUnique: a failed hydration
\* is an error and is not stored
FinishUnique(c, st, f, en, key, rd, fail) ==
    FinishHydrated(c, st, f, en,
                   IF en.err THEN Ret(TRUE, Nil) ELSE Ret(FALSE, Ptr(en.items[1])),
                   ~en.err, key, rd, fail)

\* Repo.QueryPosts, on behalf of the call c
QueryPostsFor(c, where, orders, take, skip, fail) ==
    /\ pc = "idle"
    /\ LET w == ensurePostPublished(where)
           key == GenerateCacheKey("posts", ListParams(w, orders, take, skip))
           rd == CacheRead(key, fail)
           st == Statement("Post", PostListConds(w), PostOrderBy(orders),
                           LimitOf(take), OffsetOf(skip))
       IN  IF rd.hit
           THEN Finish(c, NoStatement, <<>>, <<>>, rd.entry,
                       Use(c, rd, NoWrite, key, <<>>, rd.entry))
           ELSE IF "primary" \in fail
           THEN Finish(c, st, <<>>, <<>>, Ret(TRUE, <<>>),
                       Use(c, rd, NoWrite, key, <<>>, Ret(TRUE, <<>>)))
           ELSE \E o \in Orderings(Matching(db, st), st.order) :
                LET rows == Window(o, st.limit, st.offset)
                    posts == [i \in DOMAIN rows |-> DecodePost(rows[i])]
                IN  FinishList(c, st, RowIDs(o), Len(posts),
                               enrichPosts(db, posts, fail), key, rd, fail)

\* Repo.QueryPosts
QueryPosts(where, orders, take, skip, fail) ==
    QueryPostsFor(Call("QueryPosts", where, orders, take, skip, fail),
                  where, orders, take, skip, fail)

\* Repo.QueryPostsCount, on behalf of the call c
QueryPostsCountFor(c, where, fail) ==
    /\ pc = "idle"
    /\ LET w == ensurePostPublished(where)
           st == Statement("Post", PostCountConds(w), <<>>, Nil, Nil)
       IN  IF "primary" \in fail
           THEN Finish(c, st, <<>>, <<>>, RetCount(TRUE, 0), NoCacheUse)
           ELSE Finish(c, st, <<>>, <<>>,
                       RetCount(FALSE, Cardinality(Matching(db, st))), NoCacheUse)

\* Repo.QueryPostsCount
QueryPostsCount(where, fail) ==
    QueryPostsCountFor(Call("QueryPostsCount", where, <<>>, 0, 0, fail), where, fail)

\* Repo.QueryExternals
QueryExternals(where, orders, take, skip, fail) ==
    /\ pc = "idle"
    /\ LET w == ensureExternalPublished(where)
           key == GenerateCacheKey("externals", ListParams(w, orders, take, skip))
           rd == CacheRead(key, fail)
           st == Statement("External", ExternalListConds(w, orders),
                           ExternalOrderBy(orders), LimitOf(take), OffsetOf(skip))
           c == Call("QueryExternals", where, orders, take, skip, fail)
       IN  IF rd.hit
           THEN Finish(c, NoStatement, <<>>, <<>>, rd.entry,
                       Use(c, rd, NoWrite, key, <<>>, rd.entry))
           ELSE IF "primary" \in fail
           THEN Finish(c, st, <<>>, <<>>, Ret(TRUE, <<>>),
                       Use(c, rd, NoWrite, key, <<>>, Ret(TRUE, <<>>)))
           ELSE \E o \in Orderings(Matching(db, st), st.order) :
                LET rows == Window(o, st.limit, st.offset)
                    result == [i \in DOMAIN rows |-> DecodeExternal(rows[i])]
                IN  FinishExternals(c, st, RowIDs(o),
                                    enrichExternals(db, result, fail), key, rd, fail)

\* Repo.QueryExternalsCount
QueryExternalsCount(where, fail) ==
    /\ pc = "idle"
    /\ LET w == ensureExternalPublished(where)
           st == Statement("External", ExternalCountConds(w), <<>>, Nil, Nil)
           c == Call("QueryExternalsCount", where, <<>>, 0, 0, fail)
       IN  IF "primary" \in fail
           THEN Finish(c, st, <<>>, <<>>, RetCount(TRUE, 0), NoCacheUse)
           ELSE Finish(c, st, <<>>, <<>>,
                       RetCount(FALSE, Cardinality(Matching(db, st))), NoCacheUse)

\* Repo.QueryTopics
QueryTopics(where, orders, take, skip, fail) ==
    /\ pc = "idle"
    /\ LET key == GenerateCacheKey("topics", ListParams(where, orders, take, skip))
           rd == CacheRead(key, fail)
           st == Statement("Topic", TopicListConds(where), TopicOrderBy(orders),
                           LimitOf(take), OffsetOf(skip))
           c == Call("QueryTopics", where, orders, take, skip, fail)
       IN  IF rd.hit
           THEN Finish(c, NoStatement, <<>>, <<>>, rd.entry,
                       Use(c, rd, NoWrite, key, <<>>, rd.entry))
           ELSE IF "primary" \in fail
           THEN Finish(c, st, <<>>, <<>>, Ret(TRUE, <<>>),
                       Use(c, rd, NoWrite, key, <<>>, Ret(TRUE, <<>>)))
           ELSE \E o \in Orderings(Matching(db, st), st.order) :
                LET rows == Window(o, st.limit, st.offset)
                    topics == [i \in DOMAIN rows |-> DecodeTopic(rows[i])]
                IN  FinishList(c, st, RowIDs(o), Len(topics),
                               enrichTopics(db, topics, fail), key, rd, fail)

\* Repo.QueryTopicsCount
QueryTopicsCount(where, fail) ==
    /\ pc = "idle"
    /\ LET key == GenerateCacheKey("topicsCount", where)
           rd == CacheRead(key, fail)
           st == Statement("Topic", TopicCountConds(where), <<>>, Nil, Nil)
           c == Call("QueryTopicsCount", where, <<>>, 0, 0, fail)
           r == RetCount(FALSE, Cardinality(Matching(db, st)))
       IN  IF rd.hit
           THEN Finish(c, NoStatement, <<>>, <<>>, rd.entry,
                       Use(c, rd, NoWrite, key, <<>>, rd.entry))
           ELSE IF "primary" \in fail
           THEN Finish(c, st, <<>>, <<>>, RetCount(TRUE, 0),
                       Use(c, rd, NoWrite, key, <<>>, RetCount(TRUE, 0)))
           ELSE Finish(c, st, <<>>, <<>>, r,
                       Use(c, rd, CacheWrite(key, r, 1, fail), key, <<>>, r))


\* a variant that hands sql.ErrNoRows to the caller
ErrNoRows_Returned == Ret(TRUE, Nil)

\* a scan that meets sql.ErrNoRows: the nil entity and the nil error
ErrNoRows == Ret(FALSE, Nil)

\* the selector of QueryPostByUnique: id before slug; Nil when neither is set
PostUniqueConds(w) ==
    IF ~IsNil(w.id) THEN Ptr(AddCond(NewBuilder, "=", "id", Arg("string", Deref(w.id))))
    ELSE IF ~IsNil(w.slug) THEN Ptr(AddCond(NewBuilder, "=", "slug", Arg("string", Deref(w.slug))))
    ELSE Nil

\* a variant that tries the slug before the id
TopicUniqueConds_SlugFirst(w) ==
    IF ~IsNil(w.slug) THEN Ptr(AddCond(NewBuilder, "=", "slug", Arg("string", Deref(w.slug))))
    ELSE IF ~IsNil(w.id) THEN Ptr(AddCond(NewBuilder, "=", "id", Arg("string", Deref(w.id))))
    ELSE IF ~IsNil(w.name) THEN Ptr(AddCond(NewBuilder, "=", "name", Arg("string", Deref(w.name))))
    ELSE Nil

\* the selector of QueryTopicByUnique: id, then slug, then name
TopicUniqueConds(w) ==
    IF ~IsNil(w.id) THEN Ptr(AddCond(NewBuilder, "=", "id", Arg("string", Deref(w.id))))
    ELSE IF ~IsNil(w.slug) THEN Ptr(AddCond(NewBuilder, "=", "slug", Arg("string", Deref(w.slug))))
    ELSE IF ~IsNil(w.name) THEN Ptr(AddCond(NewBuilder, "=", "name", Arg("string", Deref(w.name))))
    ELSE Nil

\* Repo.QueryPostByUnique, on behalf of the call c
QueryPostByUniqueFor(c, where, fail) ==
    /\ pc = "idle"
    /\     IF IsNil(where)
           THEN Finish(c, NoStatement, <<>>, <<>>, Ret(FALSE, Nil), NoCacheUse)
           ELSE
           LET key == GenerateCacheKey("post:unique", Deref(where))
               rd == CacheRead(key, fail)
               b == PostUniqueConds(Deref(where))
               st == Statement("Post", Deref(b), <<>>, Ptr(1), Nil)
           IN  IF rd.hit
               THEN Finish(c, NoStatement, <<>>, <<>>, rd.entry,
                           Use(c, rd, NoWrite, key, <<>>, rd.entry))
               ELSE IF IsNil(b)
               THEN Finish(c, NoStatement, <<>>, <<>>, Ret(FALSE, Nil),
                           Use(c, rd, NoWrite, key, <<>>, Ret(FALSE, Nil)))
               ELSE IF "primary" \in fail
               THEN Finish(c, st, <<>>, <<>>, Ret(TRUE, Nil),
                           Use(c, rd, NoWrite, key, <<>>, Ret(TRUE, Nil)))
               ELSE IF Matching(db, st) = {}
               THEN Finish(c, st, <<>>, <<>>, ErrNoRows,
                           Use(c, rd, NoWrite, key, <<>>, ErrNoRows))
               ELSE \E row \in Matching(db, st) :
                    FinishUnique(c, st, RowIDs(SetToSeq(Matching(db, st))),
                                 enrichPosts(db, <<DecodePost(row)>>, fail),
                                 key, rd, fail)

\* Repo.QueryPostByUnique
QueryPostByUnique(where, fail) ==
    QueryPostByUniqueFor(Call("QueryPostByUnique", where, <<>>, 0, 0, fail),
                         where, fail)

\* a call of a resolver: its untyped arguments, as they were given
Request(op, args, fail) ==
    Call(op, <<args.where>>, <<args.orderBy>>, asInt(args.take), asInt(args.skip),
         fail)

\* the resolver of "posts": decodePostWhere, parseOrderRules,
\* parsePagination, then the query
ResolvePosts(args, fail) ==
    LET c == Request("posts", args, fail)
        where == DecodePostWhere(args.where)
        orders == parseOrderRules(args.orderBy)
        page == parsePagination(args)
    IN  IF where.err
        THEN /\ pc = "idle"
             /\ Finish(c, NoStatement, <<>>, <<>>, Ret(TRUE, <<>>), NoCacheUse)
        ELSE QueryPostsFor(c, where.v, orders, page.take, page.skip, fail)

\* the resolver of "post": decodePostWhereUnique, then the query
ResolvePost(args, fail) ==
    LET c == Request("post", args, fail)
        where == DecodePostWhereUnique(args.where)
    IN  IF where.err
        THEN /\ pc = "idle"
             /\ Finish(c, NoStatement, <<>>, <<>>, Ret(TRUE, <<>>), NoCacheUse)
        ELSE QueryPostByUniqueFor(c, where.v, fail)

\* Repo.QueryTopicByUnique
QueryTopicByUnique(where, fail) ==
    /\ pc = "idle"
    /\ LET c == Call("QueryTopicByUnique", where, <<>>, 0, 0, fail)
       IN  IF IsNil(where)
           THEN Finish(c, NoStatement, <<>>, <<>>, Ret(FALSE, Nil), NoCacheUse)
           ELSE
           LET key == GenerateCacheKey("topic:unique", Deref(where))
               rd == CacheRead(key, fail)
               b == TopicUniqueConds(Deref(where))
               st == Statement("Topic", Deref(b), <<>>, Ptr(1), Nil)
           IN  IF rd.hit
               THEN Finish(c, NoStatement, <<>>, <<>>, rd.entry,
                           Use(c, rd, NoWrite, key, <<>>, rd.entry))
               ELSE IF IsNil(b)
               THEN Finish(c, NoStatement, <<>>, <<>>, Ret(FALSE, Nil),
                           Use(c, rd, NoWrite, key, <<>>, Ret(FALSE, Nil)))
               ELSE IF "primary" \in fail
               THEN Finish(c, st, <<>>, <<>>, Ret(TRUE, Nil),
                           Use(c, rd, NoWrite, key, <<>>, Ret(TRUE, Nil)))
               ELSE IF Matching(db, st) = {}
               THEN Finish(c, st, <<>>, <<>>, ErrNoRows,
                           Use(c, rd, NoWrite, key, <<>>, ErrNoRows))
               ELSE \E row \in Matching(db, st) :
                    FinishUnique(c, st, RowIDs(SetToSeq(Matching(db, st))),
                                 enrichTopics(db, <<DecodeTopic(row)>>, fail),
                                 key, rd, fail)

---------------------------------------------------------------------------
(* The in-memory pagination helper of the first server (package main).     *)

\* applyPagination: items[skip:end]; a slice expression with a negative
\* low index is a run-time panic
applyPagination(items, take, skip) ==
    IF skip >= Len(items) THEN [panic |-> FALSE, items |-> <<>>]
    ELSE LET end == IF take > 0 /\ skip + take < Len(items)
                    THEN skip + take ELSE Len(items)
         IN  IF skip < 0 THEN [panic |-> TRUE, items |-> <<>>]
             ELSE [panic |-> FALSE, items |-> SubSeq(items, skip + 1, end)]

\* a call of applyPagination on a list of n items; the err of the result
\* stands for the panic
ApplyPagination(n, take, skip) ==
    /\ pc = "idle"
    /\ LET items == [i \in 1..n |-> [ID |-> Itoa(i)]]
           r == applyPagination(items, take, skip)
       IN  Finish(Call("applyPagination", Nil, <<>>, take, skip, {}),
                  NoStatement, [i \in 1..n |-> i], <<>>,
                  Ret(r.panic, r.items), NoCacheUse)

\* the caller has the response; the working copies of the call are dropped
Return ==
    /\ pc = "done"
    /\ pc' = "idle"
    /\ call' = NoCall
    /\ stmt' = NoStatement
    /\ full' = <<>>
    /\ queries' = <<>>
    /\ ret' = Ret(FALSE, <<>>)
    /\ cacheOps' = <<>>
    /\ UNCHANGED <<db, cacheOn, cache, hist, goroutines, heap>>

---------------------------------------------------------------------------
(* The in-memory filter matcher of the first server (package main).        *)

RECURSIVE matchesStringFilter(_, _)
\* matchesStringFilter: equals, then in, then the negation of the nested
\* filter
matchesStringFilter(value, filter) ==
    IF IsNil(filter) THEN TRUE
    ELSE LET f == Deref(filter)
         IN  IF ~IsNil(f.equals) /\ value # Deref(f.equals) THEN FALSE
             ELSE IF Len(f.in) > 0 /\ ~(\E i \in DOMAIN f.in : value = f.in[i])
             THEN FALSE
             ELSE IF ~IsNil(f.not) /\ matchesStringFilter(value, f.not) THEN FALSE
             ELSE TRUE

---------------------------------------------------------------------------
(* Requests served at the same time.  net/http runs every request on a     *)
(* goroutine of its own and all of them call the methods of one Repo.  A   *)
(* call of QueryPosts is three steps here: up to the end of the row scan,  *)
(* the hydration, and the return to the caller.                            *)

Goroutines == 1..MaxGoroutines

\* a goroutine that serves no request
Parked ==
    [pc |-> "idle", where |-> Nil, take |-> 0, posts |-> 0,
     ret |-> Ret(FALSE, <<>>), met |-> {}]

\* an allocation that every call would share
NewSlice_Shared(g) == 1

\* posts := []Post{}: the slice of a call is an allocation of its own
NewSlice(g) == g

\* the calls that are between two of their steps see g take one
Meet(gs, g) ==
    [h \in Goroutines |->
        IF h # g /\ gs[h].pc = "scanned"
        THEN [gs[h] EXCEPT !.met = @ \cup {g}] ELSE gs[h]]

\* Repo.QueryPosts with the cache disabled, to the end of the row scan; an
\* empty result is returned at once
ScanPosts(g, where, take) ==
    /\ ~cacheOn
    /\ goroutines[g].pc = "idle"
    /\ LET w == ensurePostPublished(where)
           st == Statement("Post", PostListConds(w), PostOrderBy(<<>>),
                           LimitOf(take), Nil)
       IN  \E o \in Orderings(Matching(db, st), st.order) :
            LET rows == Window(o, st.limit, st.offset)
                posts == [i \in DOMAIN rows |-> DecodePost(rows[i])]
                a == NewSlice(g)
            IN  /\ heap' = [heap EXCEPT ![a] = posts]
                /\ goroutines' =
                     Meet([goroutines EXCEPT ![g] =
                             [pc |-> IF Len(posts) = 0 THEN "done" ELSE "scanned",
                              where |-> where, take |-> take, posts |-> a,
                              ret |-> Ret(FALSE, <<>>), met |-> {}]], g)
    /\ UNCHANGED <<db, cacheOn, cache, pc, call, stmt, full, queries, ret,
                   cacheOps, hist>>

\* Repo.QueryPosts from enrichPosts on: the elements of the slice are filled
\* in place and the slice is the result
HydratePosts(g) ==
    /\ ~cacheOn
    /\ goroutines[g].pc = "scanned"
    /\ LET a == goroutines[g].posts
           en == enrichPosts(db, heap[a], {})
       IN  /\ heap' = [heap EXCEPT ![a] = IF en.err THEN @ ELSE en.items]
           /\ goroutines' =
                Meet([goroutines EXCEPT ![g].pc = "done",
                                        ![g].ret = IF en.err THEN Ret(TRUE, <<>>)
                                                   ELSE Ret(FALSE, en.items)], g)
    /\ UNCHANGED <<db, cacheOn, cache, pc, call, stmt, full, queries, ret,
                   cacheOps, hist>>

\* the response is written; the locals of the call are gone
Respond(g) ==
    /\ goroutines[g].pc = "done"
    /\ heap' = [heap EXCEPT ![goroutines[g].posts] = <<>>]
    /\ goroutines' = Meet([goroutines EXCEPT ![g] = Parked], g)
    /\ UNCHANGED <<db, cacheOn, cache, pc, call, stmt, full, queries, ret,
                   cacheOps, hist>>

---------------------------------------------------------------------------
(* config.Load: the configuration read from the environment.  The values   *)
(* of REDIS_ENABLED and REDIS_TTL are sequences of characters, since they  *)
(* are parsed; an unset variable reads as the empty string.                *)

\* strconv.ParseBool: 1, t, T, TRUE, true, True, 0, f, F, FALSE, false,
\* False, and an error for anything else
ParseBool(str) ==
    IF str \in {<<"1">>, <<"t">>, <<"T">>, <<"T", "R", "U", "E">>,
                <<"t", "r", "u", "e">>, <<"T", "r", "u", "e">>}
    THEN [err |-> FALSE, b |-> TRUE]
    ELSE IF str \in {<<"0">>, <<"f">>, <<"F">>, <<"F", "A", "L", "S", "E">>,
                     <<"f", "a", "l", "s", "e">>, <<"F", "a", "l", "s", "e">>}
    THEN [err |-> FALSE, b |-> FALSE]
    ELSE [err |-> TRUE, b |-> FALSE]

DigitChars == <<"0", "1", "2", "3", "4", "5", "6", "7", "8", "9">>
IsDigit(ch) == \E i \in DOMAIN DigitChars : DigitChars[i] = ch
DigitValue(ch) == (CHOOSE i \in DOMAIN DigitChars : DigitChars[i] = ch) - 1

RECURSIVE DecimalValue(_)
DecimalValue(digits) ==
    IF Len(digits) = 0 THEN 0
    ELSE 10 * DecimalValue(SubSeq(digits, 1, Len(digits) - 1))
         + DigitValue(digits[Len(digits)])

\* strconv.Atoi on a text of any length: an optional sign and then decimal
\* digits, at least one
AtoiText(str) ==
    LET signed == Len(str) > 0 /\ str[1] \in {"+", "-"}
        digits == IF signed THEN Tail(str) ELSE str
    IN  IF Len(digits) = 0 \/ \E i \in DOMAIN digits : ~IsDigit(digits[i])
        THEN [err |-> TRUE, n |-> 0]
        ELSE [err |-> FALSE,
              n |-> IF signed /\ str[1] = "-" THEN 0 - DecimalValue(digits)
                    ELSE DecimalValue(digits)]

\* Config{}
ZeroConfig ==
    [DatabaseURL |-> "", StaticsHost |-> "", Port |-> "", GoEnv |-> "",
     RedisEnabled |-> FALSE, RedisURL |-> "", RedisTTL |-> 0]

DefaultRedisTTL == 3600

\* Load over the environment env: the configuration and whether it is an
\* error
LoadConfig(env) ==
    LET enabled == ParseBool(env.REDIS_ENABLED)
        ttl == AtoiText(env.REDIS_TTL)
    IN  IF env.DATABASE_URL = "" THEN [err |-> TRUE, cfg |-> ZeroConfig]
        ELSE IF env.STATICS_HOST = "" THEN [err |-> TRUE, cfg |-> ZeroConfig]
        ELSE IF env.REDIS_ENABLED # <<>> /\ enabled.err
        THEN [err |-> TRUE, cfg |-> ZeroConfig]
        ELSE IF env.REDIS_TTL # <<>> /\ ttl.err
        THEN [err |-> TRUE, cfg |-> ZeroConfig]
        ELSE [err |-> FALSE,
              cfg |-> [DatabaseURL |-> env.DATABASE_URL,
                       StaticsHost |-> env.STATICS_HOST,
                       Port |-> IF env.PORT = "" THEN "8080" ELSE env.PORT,
                       GoEnv |-> IF env.GO_ENV = "" THEN "dev" ELSE env.GO_ENV,
                       RedisEnabled |-> IF env.REDIS_ENABLED # <<>> THEN enabled.b
                                        ELSE FALSE,
                       RedisURL |-> env.REDIS_URL,
                       RedisTTL |-> IF env.REDIS_TTL # <<>> THEN ttl.n
                                    ELSE DefaultRedisTTL]]

\* config.Load
Load(env) ==
    /\ pc = "idle"
    /\ LET r == LoadConfig(env)
       IN  Finish(Call("Load", env, <<>>, 0, 0, {}), NoStatement, <<>>, <<>>,
                  Ret(r.err, r.cfg), NoCacheUse)

---------------------------------------------------------------------------
(* The probe: ProbeHandler, runProbeTests and compareBodies.  A response   *)
(* body is a sequence of characters; the JSON texts of the model are       *)
(* numbers and arrays of one or no element, with white space.              *)

\* the names of the built-in tests, in their order
ProbeTests ==
    <<"posts_list", "post_by_slug", "externals_list", "external_by_slug",
      "topics_list", "topic_by_slug", "topic_post_count">>

RECURSIVE TrimLeft(_)
TrimLeft(s) == IF Len(s) > 0 /\ s[1] = " " THEN TrimLeft(Tail(s)) ELSE s

RECURSIVE TrimRight(_)
TrimRight(s) ==
    IF Len(s) > 0 /\ s[Len(s)] = " " THEN TrimRight(SubSeq(s, 1, Len(s) - 1)) ELSE s

JSONError == [err |-> TRUE, v |-> [t |-> "none"]]

RECURSIVE Unmarshal(_)
\* json.Unmarshal into an interface{}: white space around a value is
\* skipped, a number is its value, an array the sequence of its elements
Unmarshal(raw) ==
    LET s == TrimRight(TrimLeft(raw))
    IN  IF Len(s) = 0 THEN JSONError
        ELSE IF \A i \in DOMAIN s : IsDigit(s[i])
        THEN IF Len(s) > 1 /\ s[1] = "0" THEN JSONError
             ELSE [err |-> FALSE, v |-> [t |-> "number", n |-> DecimalValue(s)]]
        ELSE IF Len(s) >= 2 /\ s[1] = "[" /\ s[Len(s)] = "]"
        THEN LET inner == TrimLeft(SubSeq(s, 2, Len(s) - 1))
             IN  IF Len(inner) = 0
                 THEN [err |-> FALSE, v |-> [t |-> "array", items |-> <<>>]]
                 ELSE LET e == Unmarshal(inner)
                      IN  IF e.err THEN JSONError
                          ELSE [err |-> FALSE,
                                v |-> [t |-> "array", items |-> <<e.v>>]]
        ELSE JSONError

\* normalizeJSON
normalizeJSON(raw) == Unmarshal(raw)

\* a comparison that leaves the status codes out
compareBodies_IgnoresStatus(target, self) ==
    IF target.Error # "" \/ self.Error # ""
    THEN [match |-> target.Error = "" /\ self.Error = "", note |-> "transport error"]
    ELSE LET tObj == normalizeJSON(target.Body)
             sObj == normalizeJSON(self.Body)
         IN  IF ~tObj.err /\ ~sObj.err
             THEN IF tObj.v = sObj.v THEN [match |-> TRUE, note |-> ""]
                  ELSE [match |-> FALSE, note |-> "body JSON differ"]
             ELSE IF target.Body = self.Body THEN [match |-> TRUE, note |-> ""]
             ELSE [match |-> FALSE, note |-> "body differ"]

\* compareBodies
compareBodies(target, self) ==
    IF target.Error # "" \/ self.Error # ""
    THEN [match |-> target.Error = "" /\ self.Error = "", note |-> "transport error"]
    ELSE IF target.StatusCode # self.StatusCode
    THEN [match |-> FALSE, note |-> "status code differ"]
    ELSE LET tObj == normalizeJSON(target.Body)
             sObj == normalizeJSON(self.Body)
         IN  IF ~tObj.err /\ ~sObj.err
             THEN IF tObj.v = sObj.v THEN [match |-> TRUE, note |-> ""]
                  ELSE [match |-> FALSE, note |-> "body JSON differ"]
             ELSE IF target.Body = self.Body THEN [match |-> TRUE, note |-> ""]
             ELSE [match |-> FALSE, note |-> "body differ"]

\* one test of runProbeTests over the exchange x with an endpoint: the
\* request is refused, or answered with a status and a body whose read
\* fails or not
ProbeOne(name, x) ==
    IF x.refused
    THEN [Name |-> name, StatusCode |-> 0, Body |-> <<>>, Error |-> "dial"]
    ELSE IF x.readFails
    THEN [Name |-> name, StatusCode |-> x.status, Body |-> <<>>, Error |-> "read"]
    ELSE [Name |-> name, StatusCode |-> x.status, Body |-> x.body, Error |-> ""]

\* runProbeTests: one result per test, in the order of the tests
runProbeTests(exchanges) ==
    [i \in DOMAIN ProbeTests |-> ProbeOne(ProbeTests[i], exchanges[i])]

\* selfMap[name]: the last result of that name, or the zero ProbeResult
SelfResult(selfResults, name) ==
    IF \E i \in DOMAIN selfResults : selfResults[i].Name = name
    THEN selfResults[CHOOSE i \in DOMAIN selfResults :
                        /\ selfResults[i].Name = name
                        /\ \A j \in DOMAIN selfResults :
                              selfResults[j].Name = name => j <= i]
    ELSE [Name |-> "", StatusCode |-> 0, Body |-> <<>>, Error |-> ""]

\* the comparisons of ProbeHandler
Comparisons(targetResults, selfResults) ==
    [i \in DOMAIN targetResults |->
        LET tr == targetResults[i]
            sr == SelfResult(selfResults, tr.Name)
            cmp == compareBodies(tr, sr)
        IN  [Name |-> tr.Name, Match |-> cmp.match,
             TargetStatus |-> tr.StatusCode, SelfStatus |-> sr.StatusCode,
             TargetError |-> tr.Error, SelfError |-> sr.Error,
             Note |-> cmp.note]]

StatusMethodNotAllowed == 405
StatusBadRequest == 400
StatusOK == 200

\* ProbeHandler: method and url of the request, and what the two endpoints
\* do with the tests
ProbeHandler(method, url, targetExchanges, selfExchanges) ==
    /\ pc = "idle"
    /\ LET c == Call("ProbeHandler",
                     [method |-> method, url |-> url,
                      target |-> targetExchanges, self |-> selfExchanges],
                     <<>>, 0, 0, {})
       IN  IF method # "POST"
           THEN Finish(c, NoStatement, <<>>, <<>>,
                       [err |-> TRUE, value |-> <<>>, count |-> StatusMethodNotAllowed],
                       NoCacheUse)
           ELSE IF url = ""
           THEN Finish(c, NoStatement, <<>>, <<>>,
                       [err |-> TRUE, value |-> <<>>, count |-> StatusBadRequest],
                       NoCacheUse)
           ELSE Finish(c, NoStatement, <<>>, <<>>,
                       [err |-> FALSE,
                        value |-> Comparisons(runProbeTests(targetExchanges),
                                              runProbeTests(selfExchanges)),
                        count |-> StatusOK],
                       NoCacheUse)

---------------------------------------------------------------------------
(* The cache backend and the construction of the Repo.                     *)

\* the entry of one key reaches its TTL and the backend drops it
Expire(key) ==
    /\ pc = "idle"
    /\ key \in DOMAIN cache
    /\ cache' = [k \in DOMAIN cache \ {key} |-> cache[k]]
    /\ hist' = IF hist.key = key THEN NoHist ELSE hist
    /\ UNCHANGED <<db, cacheOn, pc, call, stmt, full, queries, ret, cacheOps,
                   goroutines, heap>>

\* NewRepo(db, staticsHost, cache): a Repo over the same database and the
\* same cache backend, with the cache configured and enabled or not
NewRepo(enabled) ==
    /\ pc = "idle"
    /\ cacheOn # enabled
    /\ cacheOn' = enabled
    /\ UNCHANGED <<db, cache, pc, call, stmt, full, queries, ret, cacheOps, hist,
                   goroutines, heap>>

---------------------------------------------------------------------------
(* The inputs the calls are tried with.                                    *)

asc == <<"a", "s", "c">>
desc == <<"d", "e", "s", "c">>
Directions ==
    {asc, desc, <<"A", "S", "C">>, <<"D", "e", "s", "c">>,
     <<"s", "i", "d", "e", "w", "a", "y", "s">>, <<>>}

PostOrderFields == {"publishedDate", "updatedAt", "title", "bogus"}
ExternalOrderFields == {"publishedDate", "updatedAt", "title"}
TopicOrderFields == {"sortOrder", "createdAt", "updatedAt", "name", "slug", "bogus"}

Rules(fields, dirs) == {OrderRule(f, d) : f \in fields, d \in dirs}

\* no rule, one rule, or two rules
OrderLists(fields, dirs, second) ==
    {<<>>} \cup {<<r>> : r \in Rules(fields, dirs)}
           \cup {<<r, r2>> : r \in Rules(fields, dirs), r2 \in second}

SecondRules == {OrderRule("updatedAt", asc), OrderRule("bogus", desc)}

Takes == -1..MaxTake
Skips == -1..MaxSkip

PostWheres ==
    {Nil,
     Ptr(NoPostWhere),
     Ptr([NoPostWhere EXCEPT !.state = Ptr(Equals("draft"))]),
     Ptr([NoPostWhere EXCEPT
            !.state = Ptr(StringFilter(Nil, <<"published", "draft">>, Nil))]),
     Ptr([NoPostWhere EXCEPT
            !.state = Ptr(StringFilter(Nil, <<>>, Ptr(Equals("published"))))]),
     Ptr([NoPostWhere EXCEPT !.slug = Ptr(Equals("a")),
                             !.isAdult = Ptr(BooleanFilter(Ptr(FALSE)))]),
     Ptr([NoPostWhere EXCEPT
            !.sections = Ptr([some |-> Ptr([slug |-> Ptr(Equals("s1")),
                                            state |-> Nil])]),
            !.categories = Ptr([some |-> Ptr([slug |-> Nil, state |-> Nil,
                                   isMemberOnly |-> Ptr(BooleanFilter(Ptr(TRUE)))])])])}

ExternalWheres ==
    {Nil,
     Ptr(NoExternalWhere),
     Ptr([NoExternalWhere EXCEPT !.state = Ptr(Equals("draft"))]),
     Ptr([NoExternalWhere EXCEPT !.slug = Ptr(Equals("b"))]),
     Ptr([NoExternalWhere EXCEPT
            !.partner = Ptr([slug |-> Ptr(Equals("p1"))]),
            !.publishedDate = Ptr([equals |-> Nil,
                                   not |-> Ptr([equals |-> Ptr(2), not |-> Nil])])])}

TopicWheres ==
    {Nil,
     Ptr(NoTopicWhere),
     Ptr([NoTopicWhere EXCEPT !.state = Ptr(Equals("published"))]),
     Ptr([NoTopicWhere EXCEPT !.name = Ptr(Equals("n1"))]),
     Ptr([NoTopicWhere EXCEPT !.slug = Ptr(StringFilter(Nil, <<"t1", "t2">>, Nil))])}

Opt(S) == {Nil} \cup {Ptr(x) : x \in S}

PostUniqueWheres ==
    Opt([id : Opt({"1", "3", "9"}), slug : Opt({"b", "zz"})])

TopicUniqueWheres ==
    Opt([id : Opt({"1", "9"}), slug : Opt({"t2", "zz"}), name : Opt({"n3", "zz"})])

PostKinds ==
    {"sections", "categories", "_Post_writers", "_Post_photographers",
     "_Post_camera_man", "_Post_designers", "_Post_engineers", "_Post_vocals",
     "_Post_tags", "_Post_tags_algo", "relateds", "postsByIDs", "videos",
     "topics", "images"}
ExternalKinds == {"partners", "_External_tags"}
TopicKinds == {"Tag_topics", "slideshow", "images"}

\* the database answers every query, or fails the primary statement
PrimaryFaults == {{}, {"primary"}}

\* the database fails one query of the call
OneFault(kinds) == {{}} \cup {{k} : k \in kinds \cup {"primary"}}

---------------------------------------------------------------------------
(* Specifications.                                                         *)

InitRepo(d, enabled) ==
    /\ db = d
    /\ cacheOn = enabled
    /\ cache = <<>>
    /\ pc = "idle"
    /\ call = NoCall
    /\ stmt = NoStatement
    /\ full = <<>>
    /\ queries = <<>>
    /\ ret = Ret(FALSE, <<>>)
    /\ cacheOps = <<>>
    /\ hist = NoHist
    /\ goroutines = [g \in Goroutines |-> Parked]
    /\ heap = [a \in Goroutines |-> <<>>]

InitWith(d) == InitRepo(d, FALSE)

Init == InitWith(SampleDB)

Next ==
    \/ \E w \in PostWheres, o \in OrderLists(PostOrderFields, {desc, asc}, {}),
          t \in Takes, s \in Skips, f \in PrimaryFaults :
            QueryPosts(w, o, t, s, f)
    \/ \E w \in PostWheres, f \in PrimaryFaults : QueryPostsCount(w, f)
    \/ \E w \in PostUniqueWheres, f \in PrimaryFaults : QueryPostByUnique(w, f)
    \/ \E w \in ExternalWheres, o \in OrderLists(ExternalOrderFields, {desc, asc}, {}),
          t \in Takes, s \in Skips, f \in PrimaryFaults :
            QueryExternals(w, o, t, s, f)
    \/ \E w \in ExternalWheres, f \in PrimaryFaults : QueryExternalsCount(w, f)
    \/ \E w \in TopicWheres, o \in OrderLists(TopicOrderFields, {desc, asc}, {}),
          t \in Takes, s \in Skips, f \in PrimaryFaults :
            QueryTopics(w, o, t, s, f)
    \/ \E w \in TopicWheres, f \in PrimaryFaults : QueryTopicsCount(w, f)
    \/ \E w \in TopicUniqueWheres, f \in PrimaryFaults : QueryTopicByUnique(w, f)
    \/ \E n \in 0..MaxItems, t \in Takes, s \in Skips : ApplyPagination(n, t, s)
    \/ Return

Spec == Init /\ [][Next]_vars

\* The order translators under every spelling of the direction and with a
\* second rule: the list queries with no filter and no window.
NextOrder ==
    \/ \E o \in OrderLists(PostOrderFields, Directions, SecondRules) :
            QueryPosts(Nil, o, 0, 0, {})
    \/ \E o \in OrderLists(ExternalOrderFields \cup {"bogus"}, Directions, SecondRules) :
            QueryExternals(Nil, o, 0, 0, {})
    \/ \E o \in OrderLists(TopicOrderFields, Directions, SecondRules) :
            QueryTopics(Nil, o, 0, 0, {})
    \/ Return

SpecOrder == Init /\ [][NextOrder]_vars

\* The database fails one query of a call: the primary statement or one of
\* the relation queries of the hydration.
NextFail ==
    \/ \E w \in {Nil, Ptr([NoPostWhere EXCEPT !.state = Ptr(Equals("draft"))])},
          t \in 0..MaxTake, f \in OneFault(PostKinds) :
            QueryPosts(w, <<>>, t, 0, f)
    \/ \E w \in PostUniqueWheres, f \in OneFault(PostKinds) : QueryPostByUnique(w, f)
    \/ \E w \in {Nil, Ptr([NoExternalWhere EXCEPT !.slug = Ptr(Equals("b"))])},
          t \in 0..MaxTake, f \in OneFault(ExternalKinds) :
            QueryExternals(w, <<>>, t, 0, f)
    \/ \E t \in 0..MaxTake, f \in OneFault(TopicKinds) :
            QueryTopics(Nil, <<>>, t, 0, f)
    \/ \E w \in TopicUniqueWheres, f \in OneFault(TopicKinds) : QueryTopicByUnique(w, f)
    \/ Return

SpecFail == Init /\ [][NextFail]_vars

\* The cache: a few requests repeated, by a Repo with the cache enabled
\* or not, while entries expire.
InitCache == InitRepo(SampleDB, FALSE)

NextCache ==
    \/ \E w \in {Nil, Ptr([NoPostWhere EXCEPT !.state = Ptr(Equals("published"))]),
                 Ptr([NoPostWhere EXCEPT !.slug = Ptr(Equals("zz"))])},
          f \in PrimaryFaults :
            QueryPosts(w, <<>>, MaxTake, 0, f)
    \/ \E w \in {Ptr([id |-> Ptr("1"), slug |-> Nil]),
                 Ptr([id |-> Ptr("9"), slug |-> Nil])} :
            QueryPostByUnique(w, {})
    \/ \E w \in {Nil, Ptr([NoExternalWhere EXCEPT !.slug = Ptr(Equals("zz"))])},
          f \in PrimaryFaults :
            QueryExternals(w, <<>>, MaxTake, 0, f)
    \/ \E w \in {Nil, Ptr([NoTopicWhere EXCEPT !.name = Ptr(Equals("zz"))])} :
            QueryTopics(w, <<>>, MaxTake, 0, {})
    \/ QueryTopicsCount(Nil, {})
    \/ \E w \in {Ptr([id |-> Ptr("1"), slug |-> Nil, name |-> Nil]),
                 Ptr([id |-> Nil, slug |-> Nil, name |-> Ptr("zz")])} :
            QueryTopicByUnique(w, {})
    \/ \E k \in DOMAIN cache : Expire(k)
    \/ \E e \in BOOLEAN : NewRepo(e)
    \/ Return

SpecCache == InitCache /\ [][NextCache]_vars

\* The cache enabled while the cache backend or the database fails: one
\* request of each cached method, with a failing Get, a failing Set, a
\* failing primary statement or a failing relation query.
CacheFaults(kinds) ==
    {c \cup d : c \in SUBSET {"cacheGet", "cacheSet"}, d \in OneFault(kinds)}

InitCacheFault == InitRepo(SampleDB, TRUE)

NextCacheFault ==
    \/ \E f \in CacheFaults({"_Post_tags"}) : QueryPosts(Nil, <<>>, MaxTake, 0, f)
    \/ \E f \in CacheFaults({}) :
            QueryPostByUnique(Ptr([id |-> Ptr("1"), slug |-> Nil]), f)
    \/ \E f \in CacheFaults({"_External_tags"}) :
            QueryExternals(Nil, <<>>, MaxTake, 0, f)
    \/ \E f \in CacheFaults({"Tag_topics"}) : QueryTopics(Nil, <<>>, MaxTake, 0, f)
    \/ \E f \in CacheFaults({}) : QueryTopicsCount(Nil, f)
    \/ \E f \in CacheFaults({}) :
            QueryTopicByUnique(Ptr([id |-> Ptr("1"), slug |-> Nil, name |-> Nil]), f)
    \/ \E k \in DOMAIN cache : Expire(k)
    \/ Return

SpecCacheFault == InitCacheFault /\ [][NextCacheFault]_vars

\* The filters: every subset of the branches of the three filter inputs,
\* through the three list and the three count queries.
StringFilters(v, vs) ==
    {Nil, Ptr(Equals(v)), Ptr(StringFilter(Nil, vs, Nil)),
     Ptr(StringFilter(Ptr(v), vs, Nil)),
     Ptr(StringFilter(Nil, <<>>, Ptr(Equals(v))))}

BooleanFilters == {Nil, Ptr(BooleanFilter(Ptr(TRUE)))}

AllPostWheres ==
    {Nil} \cup
    {Ptr([NoPostWhere EXCEPT !.slug = sl, !.state = st, !.isAdult = ia,
                             !.isMember = im, !.sections = se, !.categories = ca]) :
        sl \in StringFilters("a", <<"a", "b">>),
        st \in StringFilters("draft", <<"published", "draft">>),
        ia \in {Nil, Ptr(BooleanFilter(Ptr(FALSE)))},
        im \in BooleanFilters,
        se \in {Nil} \cup {Ptr([some |-> Ptr(x)]) :
                    x \in [slug : Opt({Equals("s1")}), state : Opt({Equals("active")})]},
        ca \in {Nil} \cup {Ptr([some |-> Ptr(x)]) :
                    x \in [slug : Opt({Equals("c1")}), state : Opt({Equals("active")}),
                           isMemberOnly : Opt({BooleanFilter(Ptr(TRUE))})]}}

AllExternalWheres ==
    {Nil} \cup
    {Ptr([slug |-> sl, state |-> st, partner |-> pa, publishedDate |-> pd]) :
        sl \in StringFilters("b", <<"a", "b">>),
        st \in StringFilters("draft", <<"published", "draft">>),
        pa \in {Nil, Ptr([slug |-> Nil]), Ptr([slug |-> Ptr(Equals("p1"))])},
        pd \in {Nil} \cup {Ptr([equals |-> e, not |-> n]) :
                    e \in Opt({2}),
                    n \in {Nil, Ptr([equals |-> Nil, not |-> Nil]),
                           Ptr([equals |-> Ptr(2), not |-> Nil])}}}

AllTopicWheres ==
    {Nil} \cup
    {Ptr([slug |-> sl, name |-> na, state |-> st, isFeatured |-> fe,
          type |-> ty, style |-> sy]) :
        sl \in StringFilters("t1", <<"t1", "t2">>),
        na \in {Nil, Ptr(Equals("n1")), Ptr(StringFilter(Nil, <<"n1", "n2">>, Nil))},
        st \in {Nil, Ptr(Equals("published")),
                Ptr(StringFilter(Nil, <<>>, Ptr(Equals("published"))))},
        fe \in BooleanFilters,
        ty \in {Nil, Ptr(Equals("list"))},
        sy \in {Nil, Ptr(StringFilter(Ptr("wide"), <<"wide">>, Nil))}}

NextFilter ==
    \/ \E w \in AllPostWheres : QueryPosts(w, <<>>, 0, 0, {})
    \/ \E w \in AllPostWheres : QueryPostsCount(w, {})
    \/ \E w \in AllExternalWheres, o \in {<<>>, <<OrderRule("updatedAt", desc)>>} :
            QueryExternals(w, o, 0, 0, {})
    \/ \E w \in AllExternalWheres : QueryExternalsCount(w, {})
    \/ \E w \in AllTopicWheres : QueryTopics(w, <<>>, 0, 0, {})
    \/ \E w \in AllTopicWheres : QueryTopicsCount(w, {})
    \/ Return

SpecFilter == Init /\ [][NextFilter]_vars

\* The untyped arguments: filters, order lists and unique keys of the
\* recognized shape, with a value of the wrong type, and with a key outside
\* the recognized fields, through the resolvers of "posts" and "post" of a
\* Repo with the cache enabled.
RawFilter(field, branch, value) ==
    RawMap(<< <<field, RawMap(<< <<branch, value>> >>)>> >>)

RawPostWheres ==
    {RawNil,
     RawMap(<<>>),
     RawFilter("state", "equals", RawString("draft")),
     RawFilter("slug", "in", RawList(<<RawString("a"), RawString("b")>>)),
     RawFilter("isAdult", "equals", RawBool(FALSE)),
     \* a value of the wrong type
     RawString("draft"),
     RawMap(<< <<"state", RawString("draft")>> >>),
     RawFilter("state", "equals", RawBool(TRUE)),
     RawFilter("slug", "in", RawString("a")),
     RawFilter("isAdult", "equals", RawString("no")),
     \* a key outside the recognized fields
     RawFilter("author", "equals", RawString("x")),
     RawFilter("state", "contains", RawString("dr")),
     RawMap(<< <<"state", RawMap(<< <<"equals", RawString("draft")>> >>)>>,
               <<"title", RawMap(<< <<"equals", RawString("t")>> >>)>> >>)}

RawOrderEntry(field, dir) == RawMap(<< <<field, RawString(dir)>> >>)

RawOrderBys ==
    {RawNil,
     RawList(<<>>),
     RawList(<<RawOrderEntry("updatedAt", asc)>>),
     RawList(<<RawOrderEntry("title", desc), RawOrderEntry("updatedAt", asc)>>),
     \* not a list
     RawOrderEntry("updatedAt", asc),
     \* an entry that is not a map
     RawList(<<RawString(asc)>>),
     RawList(<<RawString(desc), RawOrderEntry("title", asc)>>)}

RawPostUniques ==
    {RawNil,
     RawMap(<<>>),
     RawMap(<< <<"id", RawString("1")>> >>),
     RawMap(<< <<"slug", RawString("b")>> >>),
     \* a value of the wrong type
     RawMap(<< <<"id", RawInt(1)>> >>),
     RawList(<<RawString("1")>>),
     \* a key outside the recognized fields
     RawMap(<< <<"title", RawString("b")>> >>),
     RawMap(<< <<"slug", RawString("b")>>, <<"name", RawString("n")>> >>)}

InitDecode == InitRepo(SampleDB, TRUE)

\* every request finds the cache empty: what earlier requests stored has
\* expired before the next one arrives
NextDecode ==
    \/ /\ DOMAIN cache = {}
       /\ \E w \in RawPostWheres, o \in RawOrderBys, take \in {RawNil, RawInt(1)} :
                ResolvePosts(Args(w, o, take, RawNil), {})
    \/ /\ DOMAIN cache = {}
       /\ \E w \in RawPostUniques : ResolvePost(Args(w, RawNil, RawNil, RawNil), {})
    \/ \E k \in DOMAIN cache : Expire(k)
    \/ Return

SpecDecode == InitDecode /\ [][NextDecode]_vars

\* The deadlines: the article queries at every choice of the instants at
\* which their statements are issued, under a caller's context with and
\* without a deadline, with the cache disabled.
ListDeadlines(at) ==
    LET ctx == WithTimeout(at.parent, 0, PrimaryTimeout)
    IN  [primary |-> ctx,
         hydration |-> WithTimeout(ctx, at.enrich, HydrationTimeout)]

\* the statements of a list or unique-key call that are cancelled
TimedFaults(at, kinds) ==
    LET dl == ListDeadlines(at)
    IN  (IF Cancelled(at.primary, dl.primary) THEN {"primary"} ELSE {})
        \cup (IF Cancelled(at.hydrate, dl.hydration) THEN kinds ELSE {})

\* the statement of a count call that is cancelled
CountFaults(at) ==
    IF Cancelled(at.primary, WithTimeout(at.parent, 0, CountTimeout))
    THEN {"primary"} ELSE {}

Timed(c, at) == [c EXCEPT !.at = at]

\* Repo.QueryPosts with its statements issued at the instants at
QueryPostsAt(where, at) ==
    LET fail == TimedFaults(at, PostKinds)
    IN  QueryPostsFor(Timed(Call("QueryPosts", where, <<>>, 0, 0, fail), at),
                      where, <<>>, 0, 0, fail)

\* Repo.QueryPostByUnique with its statements issued at the instants at
QueryPostByUniqueAt(where, at) ==
    LET fail == TimedFaults(at, PostKinds)
    IN  QueryPostByUniqueFor(
            Timed(Call("QueryPostByUnique", where, <<>>, 0, 0, fail), at),
            where, fail)

\* Repo.QueryPostsCount with its statement issued at the instant at.primary
QueryPostsCountAt(where, at) ==
    LET fail == CountFaults(at)
    IN  QueryPostsCountFor(
            Timed(Call("QueryPostsCount", where, <<>>, 0, 0, fail), at),
            where, fail)

CallerDeadlines == {NoDeadline, 7}
Seconds == {0, 4, 9, 12, 16, 26}

AllInstants ==
    {Instants(p, a, b, c) : p \in CallerDeadlines,
                            a \in Seconds, b \in Seconds, c \in Seconds}

ListInstants == {at \in AllInstants : at.primary <= at.enrich /\ at.enrich <= at.hydrate}
CountInstants == {at \in AllInstants : at.primary = at.enrich /\ at.enrich = at.hydrate}

InitDeadline == InitRepo(SampleDB, FALSE)

NextDeadline ==
    \/ \E at \in ListInstants : QueryPostsAt(Nil, at)
    \/ \E at \in ListInstants :
            QueryPostByUniqueAt(Ptr([id |-> Ptr("1"), slug |-> Nil]), at)
    \/ \E at \in CountInstants : QueryPostsCountAt(Nil, at)
    \/ Return

SpecDeadline == InitDeadline /\ [][NextDeadline]_vars

\* The singular related articles vary: the first two articles of the sample
\* database reference, in either slot, no article, the id zero, a published
\* article, a draft, or an article that does not exist.
SingleRefs == {Null, NotNull(0), NotNull(2), NotNull(3), NotNull(9)}

WithSingles(d, one1, two1, two2) ==
    [d EXCEPT !.Post =
        {IF r.id = 1 THEN [r EXCEPT !.relatedsOne = one1, !.relatedsTwo = two1]
         ELSE IF r.id = 2 THEN [r EXCEPT !.relatedsTwo = two2]
         ELSE r : r \in d.Post}]

InitSingles ==
    \E one1 \in SingleRefs, two1 \in SingleRefs, two2 \in {Null, NotNull(1), NotNull(9)} :
        InitWith(WithSingles(SampleDB, one1, two1, two2))

NextSingles ==
    \/ QueryPosts(Nil, <<>>, 0, 0, {})
    \/ \E id \in {"1", "2"} : QueryPostByUnique(Ptr([id |-> Ptr(id), slug |-> Nil]), {})
    \/ Return

SpecSingles == InitSingles /\ [][NextSingles]_vars

\* Requests on several goroutines at once over one Repo whose cache is
\* disabled; the database does not change.
ConcurrentWheres ==
    {Nil,
     Ptr([NoPostWhere EXCEPT !.state = Ptr(Equals("draft"))]),
     Ptr([NoPostWhere EXCEPT !.slug = Ptr(Equals("a"))]),
     Ptr([NoPostWhere EXCEPT !.slug = Ptr(Equals("zz"))])}

InitConcurrent == InitRepo(SampleDB, FALSE)

NextConcurrent ==
    \/ \E g \in Goroutines, w \in ConcurrentWheres, t \in {0, 1} : ScanPosts(g, w, t)
    \/ \E g \in Goroutines : HydratePosts(g)
    \/ \E g \in Goroutines : Respond(g)

SpecConcurrent == InitConcurrent /\ [][NextConcurrent]_vars

\* The process starts under every environment of a small set.
Environments ==
    [DATABASE_URL : {"", "postgres://db"},
     STATICS_HOST : {"", "https://statics"},
     PORT : {"", "9090"},
     GO_ENV : {"", "prod"},
     REDIS_ENABLED : {<<>>, <<"t", "r", "u", "e">>, <<"1">>,
                      <<"f", "a", "l", "s", "e">>, <<"y", "e", "s">>},
     REDIS_URL : {"", "redis://cache"},
     REDIS_TTL : {<<>>, <<"6", "0">>, <<"-", "5">>, <<"1", "h">>, <<"+">>}]

InitLoad == InitRepo(SampleDB, FALSE)

NextLoad ==
    \/ \E env \in Environments : Load(env)
    \/ Return

SpecLoad == InitLoad /\ [][NextLoad]_vars

\* The probe against endpoints that answer one of the tests in every way
\* of a small set and the others alike.
ProbeBodies ==
    {<<>>, <<"1">>, <<" ", "1">>, <<"2">>, <<"1", "1">>, <<"[", "1", "]">>,
     <<"[", " ", "1", " ", "]">>, <<"[", "]">>, <<"[", "1">>, <<"x">>}

Exchanges ==
    {[refused |-> TRUE, readFails |-> FALSE, status |-> 0, body |-> <<>>]}
    \cup [refused : {FALSE}, readFails : {TRUE}, status : {200}, body : {<<>>}]
    \cup [refused : {FALSE}, readFails : {FALSE}, status : {200}, body : ProbeBodies]
    \cup [refused : {FALSE}, readFails : {FALSE}, status : {500},
          body : {<<"1">>, <<"x">>}]

SameElsewhere ==
    [refused |-> FALSE, readFails |-> FALSE, status |-> 200, body |-> <<"2">>]

Answers(k, x) == [i \in DOMAIN ProbeTests |-> IF i = k THEN x ELSE SameElsewhere]

InitProbe == InitRepo(SampleDB, FALSE)

NextProbe ==
    \/ \E k \in DOMAIN ProbeTests, xt \in Exchanges, xs \in Exchanges,
          m \in {"POST"}, u \in {"http://target/api/graphql"} :
            ProbeHandler(m, u, Answers(k, xt), Answers(k, xs))
    \/ \E m \in {"GET", "POST"}, u \in {"", "http://target/api/graphql"} :
            ProbeHandler(m, u, Answers(1, SameElsewhere), Answers(1, SameElsewhere))
    \/ Return

SpecProbe == InitProbe /\ [][NextProbe]_vars

\* The cache is enabled and healthy and the database fails the primary
\* statement or one relation query of a call, among them queries whose
\* failure aborts the hydration.
InitCacheAbort == InitRepo(SampleDB, TRUE)

NextCacheAbort ==
    \/ \E f \in OneFault({"sections", "images", "_Post_tags"}) :
            QueryPosts(Nil, <<>>, MaxTake, 0, f)
    \/ \E f \in OneFault({"categories"}) :
            QueryPostByUnique(Ptr([id |-> Ptr("1"), slug |-> Nil]), f)
    \/ \E f \in OneFault({"partners"}) : QueryExternals(Nil, <<>>, MaxTake, 0, f)
    \/ \E f \in OneFault({"images"}) : QueryTopics(Nil, <<>>, MaxTake, 0, f)
    \/ \E f \in PrimaryFaults : QueryTopicsCount(Nil, f)
    \/ \E f \in OneFault({"images"}) :
            QueryTopicByUnique(Ptr([id |-> Ptr("1"), slug |-> Nil, name |-> Nil]), f)
    \/ \E k \in DOMAIN cache : Expire(k)
    \/ Return

SpecCacheAbort == InitCacheAbort /\ [][NextCacheAbort]_vars

\* The related-posts relation varies: every set of at most MaxEdges rows of
\* _Post_relateds over the posts of the sample database.
InitRelated == \E E \in EdgeSets : InitWith(WithRelateds(SampleDB, E))

NextRelated ==
    \/ \E w \in {Nil, Ptr([NoPostWhere EXCEPT
                              !.state = Ptr(StringFilter(Nil, <<"published", "draft">>, Nil))])},
          t \in 0..1, s \in 0..1 :
            QueryPosts(w, <<>>, t, s, {})
    \/ \E i \in {"1", "2", "3"} :
            QueryPostByUnique(Ptr([id |-> Ptr(i), slug |-> Nil]), {})
    \/ Return

SpecRelated == InitRelated /\ [][NextRelated]_vars

---------------------------------------------------------------------------
(* Properties of the default filter.                                       *)

ListOps == {"QueryPosts", "QueryExternals", "QueryTopics"}
CountOps == {"QueryPostsCount", "QueryExternalsCount", "QueryTopicsCount"}
UniqueOps == {"QueryPostByUnique", "QueryTopicByUnique"}

\* a statement was sent to the database by the finished call
Executed == pc = "done" /\ stmt.table # ""

\* the caller's filter is absent or has no state field
OmitsState == IsNil(call.where) \/ IsNil(Deref(call.where).state)

\* the WHERE clause of the statement has a predicate on the state column
HasStateCond ==
    \E i \in DOMAIN stmt.conds : BareCol(stmt.conds[i].col) = "state"

\* the WHERE clause of the statement has state = 'published'
HasPublishedCond ==
    \E i \in DOMAIN stmt.conds :
        /\ BareCol(stmt.conds[i].col) = "state"
        /\ stmt.conds[i].op = "="
        /\ stmt.args[stmt.conds[i].ph] = Arg("string", "published")

\* the rows the statement selects are all published
OnlyPublished == \A row \in Matching(db, stmt) : row.state = "published"

\* C1 as stated: a list or count query of Article, ExternalItem or Topic
\* whose filter is absent or omits state runs with state = 'published'.
C1_AllEntities ==
    (Executed /\ call.op \in ListOps \cup CountOps /\ OmitsState)
        => HasPublishedCond

\* C1: a list or count query of Article or ExternalItem whose filter is
\* absent or omits state runs with state = 'published' and selects only
\* published rows; a Topic list or count query whose filter is absent or
\* omits state runs with no predicate on state.
C1_PublishedDefault ==
    (Executed /\ call.op \in ListOps \cup CountOps /\ OmitsState)
        => IF call.op \in {"QueryTopics", "QueryTopicsCount"}
           THEN ~HasStateCond
           ELSE HasPublishedCond /\ OnlyPublished

\* a post list with a filter that omits state returned rows, while the
\* table holds a draft row the same filter would otherwise select
C1_Witness ==
    /\ Executed
    /\ call.op = "QueryPosts"
    /\ ~IsNil(call.where) /\ OmitsState
    /\ HasPublishedCond
    /\ ~ret.err /\ Len(ret.value) > 0
    /\ \E row \in db.Post : row.state = "draft"

---------------------------------------------------------------------------
(* Properties of the related-articles relation.                            *)

\* the articles a finished QueryPosts or QueryPostByUnique hands back
Hydrated ==
    IF pc = "done" /\ call.op \in {"QueryPosts", "QueryPostByUnique"} /\ ~ret.err
    THEN SeqToSet(ret.value) ELSE {}

RelatedIDs(p) == {r.ID : r \in p.Relateds}

\* C2: for every row <<A, B>> of _Post_relateds, a hydrated batch that
\* contains A has B in A.Relateds and a hydrated batch that contains B has
\* A in B.Relateds, whichever of the two is in the batch, or both.
C2_RelatedsBothDirections ==
    \A p \in Hydrated : \A e \in db.joins._Post_relateds :
        /\ e[1] = Atoi(p.ID) => Itoa(e[2]) \in RelatedIDs(p)
        /\ e[2] = Atoi(p.ID) => Itoa(e[1]) \in RelatedIDs(p)

\* two articles of one batch joined by a single row, seen from both sides
C2_Witness ==
    \E a \in Hydrated, b \in Hydrated :
        /\ a.ID # b.ID
        /\ <<Atoi(b.ID), Atoi(a.ID)>> \in db.joins._Post_relateds
        /\ <<Atoi(a.ID), Atoi(b.ID)>> \notin db.joins._Post_relateds
        /\ b.ID \in RelatedIDs(a)
        /\ a.ID \in RelatedIDs(b)

---------------------------------------------------------------------------
(* Properties of the ordering.                                             *)

\* the ORDER BY of the statement starts with the publish timestamp
OrdersByPublished ==
    Len(stmt.order) > 0 /\ BareCol(stmt.order[1].col) = "publishedDate"

\* C3 as stated: a QueryExternals whose ordering is by publish timestamp
\* returns no external item whose publish timestamp is null.
C3_NoNullPublished ==
    (Executed /\ call.op = "QueryExternals" /\ ~ret.err /\ OrdersByPublished)
        => \A i \in DOMAIN ret.value : ret.value[i].PublishedDate # <<>>

\* the fields the order translator of each list query has a case for
RecognizedFields ==
    [QueryPosts |-> {"publishedDate", "updatedAt", "title"},
     QueryExternals |-> {"publishedDate", "updatedAt"},
     QueryTopics |-> {"sortOrder", "createdAt", "updatedAt", "name", "slug"}]

\* the fixed default ORDER BY of each entity
DefaultOrder ==
    [QueryPosts |-> <<[col |-> "publishedDate", dir |-> DESC, nulls |-> ""]>>,
     QueryExternals |-> <<[col |-> "e.publishedDate", dir |-> DESC, nulls |-> ""]>>,
     QueryTopics |-> <<[col |-> "sortOrder", dir |-> ASC, nulls |-> "LAST"],
                       [col |-> "createdAt", dir |-> DESC, nulls |-> ""]>>]

\* a finished list query that sent its statement
Listed == Executed /\ call.op \in ListOps

\* the first order rule is missing or names a field without a case
FallsBack ==
    \/ Len(call.orders) = 0
    \/ call.orders[1].Field \notin RecognizedFields[call.op]

\* the ORDER BY the same query builds from the first rule alone
FirstRuleOrder ==
    LET first == IF Len(call.orders) = 0 THEN <<>> ELSE <<call.orders[1]>>
    IN  CASE call.op = "QueryPosts" -> PostOrderBy(first)
          [] call.op = "QueryExternals" -> ExternalOrderBy(first)
          [] call.op = "QueryTopics" -> TopicOrderBy(first)

\* C4: an absent order list or a first rule on an unrecognized field gives
\* exactly the entity's default ORDER BY whatever the rule's direction, and
\* the rules after the first change nothing: the ORDER BY has one sort key
\* (two for the topics' default) and equals the one built from the first
\* rule alone.
C4_DefaultOrderFallback ==
    Listed =>
        /\ FallsBack => stmt.order = DefaultOrder[call.op]
        /\ stmt.order = FirstRuleOrder
        /\ ~FallsBack =>
              /\ Len(stmt.order) = 1
              /\ BareCol(stmt.order[1].col) = call.orders[1].Field

\* an ascending rule on an unrecognized field, followed by a second rule on
\* a recognized one, ran with the default order of the articles
C4_Witness ==
    /\ Listed
    /\ call.op = "QueryPosts"
    /\ Len(call.orders) = 2
    /\ call.orders[1] = OrderRule("bogus", asc)
    /\ call.orders[2].Field = "updatedAt"
    /\ stmt.order = DefaultOrder.QueryPosts
    /\ ~ret.err /\ Len(ret.value) > 0

\* the spellings of asc and desc in any mix of upper and lower case
AscSpellings == {d \in [1..3 -> {"a", "A", "s", "S", "c", "C"}] :
                    /\ d[1] \in {"a", "A"} /\ d[2] \in {"s", "S"}
                    /\ d[3] \in {"c", "C"}}
DescSpellings == {d \in [1..4 -> {"d", "D", "e", "E", "s", "S", "c", "C"}] :
                    /\ d[1] \in {"d", "D"} /\ d[2] \in {"e", "E"}
                    /\ d[3] \in {"s", "S"} /\ d[4] \in {"c", "C"}}

\* the direction each entity sorts in when the rule's direction is neither
DefaultDirection == [QueryPosts |-> DESC, QueryExternals |-> DESC, QueryTopics |-> ASC]

\* the direction of the first rule is neither asc nor desc in any case
InvalidDirection ==
    /\ Len(call.orders) > 0
    /\ call.orders[1].Direction \notin AscSpellings \cup DescSpellings

\* C5 as stated: a first rule whose direction is neither asc nor desc yields
\* the entity's default order, also when its field is a recognized one.
C5_InvalidDirectionDefaultOrder ==
    (Listed /\ InvalidDirection) => stmt.order = DefaultOrder[call.op]

\* C5: the direction of the first rule is matched to asc and desc without
\* regard to case; with any other direction a rule on a recognized field
\* sorts by that field in the entity's default direction (DESC for articles
\* and external items, ASC for topics), and only a rule on an unrecognized
\* field yields the entity's default order.
C5_DirectionMatching ==
    (Listed /\ Len(call.orders) > 0) =>
        LET d == call.orders[1].Direction
            dir == IF d \in AscSpellings THEN ASC
                   ELSE IF d \in DescSpellings THEN DESC
                   ELSE DefaultDirection[call.op]
        IN  IF FallsBack THEN stmt.order = DefaultOrder[call.op]
            ELSE /\ Len(stmt.order) = 1
                 /\ BareCol(stmt.order[1].col) = call.orders[1].Field
                 /\ stmt.order[1].dir = dir

\* a rule on updatedAt with the direction "sideways" sorted the articles by
\* updatedAt, descending
C5_Witness ==
    /\ Listed
    /\ call.op = "QueryPosts"
    /\ InvalidDirection
    /\ call.orders[1].Field = "updatedAt"
    /\ stmt.order = <<[col |-> "updatedAt", dir |-> DESC, nulls |-> ""]>>
    /\ ~ret.err /\ Len(ret.value) > 0

\* the first sort key of the statement is a column that can hold NULL
NullableSortKey ==
    Len(stmt.order) > 0 /\ BareCol(stmt.order[1].col) \in NullableCols

\* the row behind a returned entity has NULL in the first sort key
SortKeyIsNull(e) ==
    ~RowByID(db[stmt.table], Atoi(e.ID))[BareCol(stmt.order[1].col)].valid

\* C6 as stated: in the result of a list query ordered by a nullable sort
\* key, ascending or descending, no row with a null key comes before a row
\* with a non-null key.
C6_NullsLast ==
    (Listed /\ ~ret.err /\ NullableSortKey) =>
        \A i, j \in DOMAIN ret.value :
            (i < j /\ SortKeyIsNull(ret.value[i])) => SortKeyIsNull(ret.value[j])

---------------------------------------------------------------------------
(* Properties of the pagination.                                           *)

\* the run of rows that starts at index skip (the first row when skip <= 0)
\* and holds take rows when take > 0, all the rest otherwise
ExpectedPage(rows, take, skip) ==
    LET from == IF skip > 0 THEN skip ELSE 0
        upto == IF take > 0 /\ from + take < Len(rows) THEN from + take
                ELSE Len(rows)
    IN  [i \in 1..(IF upto > from THEN upto - from ELSE 0) |-> rows[from + i]]

\* the identifiers of the returned page, as numbers
PageIDs == [i \in DOMAIN ret.value |-> Atoi(ret.value[i].ID)]

\* a finished list query that returned rows, or a finished applyPagination
Paged ==
    \/ Listed /\ ~ret.err
    \/ pc = "done" /\ call.op = "applyPagination"

C7_PageFromSkip ==
    (Paged /\ (call.op = "applyPagination" => call.skip >= 0)) =>
        /\ ~ret.err
        /\ PageIDs = ExpectedPage(full, call.take, call.skip)
        /\ call.skip >= Len(full) => Len(ret.value) = 0
        /\ call.take > 0 => Len(ret.value) <= call.take

---------------------------------------------------------------------------
(* Properties of the unique-key lookups.                                   *)

\* a finished unique-key lookup whose statement, if sent, was answered
Looked ==
    pc = "done" /\ call.op \in UniqueOps /\ "primary" \notin call.fail

\* the key fields of each lookup, in the order of their precedence
KeyFields == [QueryPostByUnique |-> <<"id", "slug">>,
              QueryTopicByUnique |-> <<"id", "slug", "name">>]

\* the key fields the argument carries, in the order of their precedence
KeysGiven ==
    IF IsNil(call.where) THEN <<>>
    ELSE LET ks == KeyFields[call.op]
             Given(i) == ~IsNil(Deref(call.where)[ks[i]])
         IN  Flatten([i \in DOMAIN ks |-> IF Given(i) THEN <<ks[i]>> ELSE <<>>])

\* the table a lookup reads
LookupTable ==
    IF call.op = "QueryPostByUnique" THEN db.Post ELSE db.Topic

\* the rows whose column k holds the value the argument gives for k
RowsWithKey(k) ==
    LET v == Deref(Deref(call.where)[k])
    IN  {row \in LookupTable : IF k = "id" THEN Itoa(row.id) = v ELSE row[k] = v}

\* C8: a unique-key lookup whose argument is absent or carries no key
\* field, or whose key matches zero rows, returns the absent value and no
\* error.
C8_AbsentOnNoMatch ==
    (Looked /\ (KeysGiven = <<>> \/ RowsWithKey(KeysGiven[1]) = {}))
        => ~ret.err /\ ret.value = Nil

\* a lookup by a slug no article has sent its statement and returned the
\* absent value
C8_Witness ==
    /\ Looked
    /\ call.op = "QueryPostByUnique"
    /\ KeysGiven = <<"slug">>
    /\ RowsWithKey("slug") = {}
    /\ stmt.table = "Post"
    /\ ~ret.err /\ ret.value = Nil

\* C9: when the argument of a unique-key lookup carries more than one key
\* field, the field of highest precedence (id, then slug, then name) alone
\* selects the row: the statement has that one predicate, and the result is
\* the row with that key or absent, whatever the other fields hold.
C9_KeyPrecedence ==
    (Looked /\ Len(KeysGiven) > 1) =>
        LET k == KeysGiven[1]
        IN  /\ Len(stmt.conds) = 1
            /\ stmt.conds[1].col = k
            /\ ~ret.err =>
                 IF RowsWithKey(k) = {} THEN ret.value = Nil
                 ELSE /\ ret.value # Nil
                      /\ \E row \in RowsWithKey(k) : ret.value[1].ID = Itoa(row.id)

\* a lookup by the id of one topic and the slug and name of others
\* returned the topic with the id
C9_Witness ==
    /\ Looked
    /\ call.op = "QueryTopicByUnique"
    /\ KeysGiven = <<"id", "slug", "name">>
    /\ RowsWithKey("slug") # {} /\ RowsWithKey("slug") # RowsWithKey("id")
    /\ RowsWithKey("name") # {} /\ RowsWithKey("name") # RowsWithKey("id")
    /\ ~ret.err /\ ret.value # Nil
    /\ ret.value[1].ID = Deref(Deref(call.where).id)

---------------------------------------------------------------------------
(* Properties of the hydration under a failing relation query.             *)

\* the relation queries of the finished call that the database failed
FailedQueries == {queries[i].kind : i \in {j \in DOMAIN queries : queries[j].failed}}

\* C10 as stated: when a relation query of the hydration fails (whichever
\* kind), the enclosing list or unique-key operation returns an error, and
\* never entities.
C10_FailureAborts ==
    (pc = "done" /\ FailedQueries # {}) => (ret.err /\ Len(ret.value) = 0)

\* the relation kinds whose error enrichPosts and enrichTopics return
AbortingKinds == {"sections", "categories", "relateds", "postsByIDs", "images"}

\* C10, for the kinds whose error is returned: a failed query of sections,
\* categories, related articles, singular related articles or images aborts
\* the operation of an article or topic.
C10_CheckedKindsAbort ==
    (pc = "done" /\ FailedQueries \cap AbortingKinds # {})
        => (ret.err /\ Len(ret.value) = 0)

---------------------------------------------------------------------------
(* Properties of the number of relation queries.                           *)

\* a finished list or unique-key call that read the database and succeeded
Assembled ==
    /\ Executed /\ call.op \in ListOps \cup UniqueOps
    /\ call.fail = {} /\ ~ret.err

\* the rows of the primary table behind the returned entities
PrimaryRows ==
    {RowByID(db[stmt.table], Atoi(e.ID)) : e \in SeqToSet(ret.value)}

\* the set of the valid values of one nullable column over a set of rows
ColumnIDs(rows, col) == {r[col].v : r \in {x \in rows : x[col].valid}}

\* the articles the related-articles relation joins to the primary rows
RelatedOfPrimary ==
    LET ids == {r.id : r \in PrimaryRows}
    IN  {p \in db.Post : \E e \in db.joins._Post_relateds :
            \/ e[1] \in ids /\ e[2] = p.id
            \/ e[2] \in ids /\ e[1] = p.id}

\* the articles the singular related-article columns point to
SinglesOfPrimary ==
    {p \in db.Post : p.id \in ColumnIDs(PrimaryRows, "relatedsOne")
                            \cup ColumnIDs(PrimaryRows, "relatedsTwo")}

\* the image ids one hydration of articles has a use for
PostImageIDs ==
    ColumnIDs(PrimaryRows, "heroImage") \cup ColumnIDs(PrimaryRows, "og_image")
    \cup ColumnIDs(RelatedOfPrimary, "heroImage")
    \cup ColumnIDs(SinglesOfPrimary, "heroImage")
    \cup ColumnIDs({v \in db.Video : v.id \in ColumnIDs(PrimaryRows, "heroVideo")},
                   "heroImage")

\* the image ids the slideshow rows of the primary topics name
SlideshowImageIDs ==
    {j[2] : j \in {x \in db.joins.Topic_slideshow_images :
                     x[1] \in {r.id : r \in PrimaryRows} /\ HasID(db.Image, x[2])}}

\* the image ids one hydration of topics has a use for
TopicImageIDs ==
    ColumnIDs(PrimaryRows, "heroImage") \cup ColumnIDs(PrimaryRows, "og_image")
    \cup SlideshowImageIDs

\* the relation kinds whose id set is not empty, for the finished call
KindsWithIDs ==
    IF PrimaryRows = {} THEN {}
    ELSE CASE stmt.table = "Post" ->
                {"sections", "categories", "_Post_writers", "_Post_photographers",
                 "_Post_camera_man", "_Post_designers", "_Post_engineers",
                 "_Post_vocals", "_Post_tags", "_Post_tags_algo", "relateds"}
                \cup (IF ColumnIDs(PrimaryRows, "relatedsOne")
                            \cup ColumnIDs(PrimaryRows, "relatedsTwo") # {}
                      THEN {"postsByIDs"} ELSE {})
                \cup (IF ColumnIDs(PrimaryRows, "heroVideo") # {}
                      THEN {"videos"} ELSE {})
                \cup (IF ColumnIDs(PrimaryRows, "topics") # {}
                      THEN {"topics"} ELSE {})
                \cup (IF PostImageIDs # {} THEN {"images"} ELSE {})
           [] stmt.table = "External" ->
                {"_External_tags"}
                \cup (IF ColumnIDs(PrimaryRows, "partner") # {}
                      THEN {"partners"} ELSE {})
           [] stmt.table = "Topic" ->
                {"Tag_topics", "slideshow"}
                \cup (IF TopicImageIDs # {} THEN {"images"} ELSE {})

\* the kinds of the relation queries issued, in the order of their issue
QueryKinds == [i \in DOMAIN queries |-> queries[i].kind]

\* C11: a hydration that succeeds issues exactly one relation query for
\* each kind whose id set is not empty and none for the other kinds, however
\* many primary rows there are (so at most 15 for articles), and a primary
\* result of zero rows issues none.
C11_OneQueryPerKind ==
    Assembled =>
        /\ \A i, j \in DOMAIN queries : i # j => queries[i].kind # queries[j].kind
        /\ SeqToSet(QueryKinds) = KindsWithIDs
        /\ \A i \in DOMAIN queries : Len(queries[i].ids) > 0
        /\ Len(queries) <= 15
        /\ Len(ret.value) = 0 => queries = <<>>

\* a list of three articles hydrated with the full fifteen queries
C11_Witness ==
    /\ Assembled
    /\ call.op = "QueryPosts"
    /\ Len(ret.value) = 3
    /\ Len(queries) = 15

---------------------------------------------------------------------------
(* Properties of the media query.                                          *)

\* the positions of the fetchImages queries of the pass
ImageQueries == {i \in DOMAIN queries : queries[i].kind = "images"}

\* the ids of the image rows one query of the pass reads: fetchImages reads
\* the rows its id list names, fetchTopicSlideshowImages the rows its JOIN
\* of "Image" reaches from the topics of its id list
ImageRowsRead(q) ==
    CASE q.kind = "images" ->
            {id \in SeqToSet(q.ids) : HasID(db.Image, id)}
      [] q.kind = "slideshow" ->
            {j[2] : j \in {x \in db.joins.Topic_slideshow_images :
                             x[1] \in SeqToSet(q.ids) /\ HasID(db.Image, x[2])}}
      [] OTHER -> {}

\* the image ids the pass has a use for
UsedImageIDs == IF stmt.table = "Topic" THEN TopicImageIDs ELSE PostImageIDs

MediaQueriedAtMostOnce == Assembled => Cardinality(ImageQueries) <= 1

MediaIDsAreTheUnion ==
    Assembled =>
        \A i \in ImageQueries : SeqToSet(queries[i].ids) = UsedImageIDs

MediaIDsNotRepeated ==
    Assembled =>
        \A i \in ImageQueries :
            Cardinality(SeqToSet(queries[i].ids)) = Len(queries[i].ids)

MediaRowsReadOnce ==
    Assembled =>
        \A i, j \in DOMAIN queries :
            i # j => ImageRowsRead(queries[i]) \cap ImageRowsRead(queries[j]) = {}

\* C12: in one hydration pass the media table is queried at most once, with
\* an id list that names no id twice and equals the union of the image ids
\* of the primary rows and of the related articles, singular related
\* articles, hero videos and slideshow entries, and no image row is read by
\* more than one query of the pass.
C12_MediaOnceDeduplicated ==
    /\ MediaQueriedAtMostOnce
    /\ MediaIDsAreTheUnion
    /\ MediaIDsNotRepeated
    /\ MediaRowsReadOnce

\* a pass whose media query names an id twice
C12_Witness ==
    /\ Assembled
    /\ \E i \in ImageQueries :
            Cardinality(SeqToSet(queries[i].ids)) < Len(queries[i].ids)

---------------------------------------------------------------------------
(* Properties of the cache.                                                *)

CachedOps == ListOps \cup UniqueOps \cup {"QueryTopicsCount"}

\* the positions of the Gets and of the Sets in the log of the call
Gets == {i \in DOMAIN cacheOps : cacheOps[i].op = "Get"}
Sets == {i \in DOMAIN cacheOps : cacheOps[i].op = "Set"}

\* the number of database statements the finished call issued
Statements == (IF stmt.table # "" THEN 1 ELSE 0) + Len(queries)

\* the read comes before the first database statement, the write after the
\* last one, and a write follows a full hydration pass
ReadFirstWriteLast ==
    pc = "done" =>
        /\ \A i \in Gets : cacheOps[i].after = 0
        /\ \A i \in Sets :
              /\ cacheOps[i].after = Statements
              /\ stmt.table # ""
              /\ call.op \in ListOps \cup UniqueOps =>
                    SeqToSet(QueryKinds) = KindsWithIDs

\* the entities of the primary rows of a cached value, hydrated from the
\* database with no query failing
HydratedFromDB(prefix, value) ==
    CASE prefix \in {"posts", "post:unique"} ->
            enrichPosts(db, [i \in DOMAIN value |->
                        DecodePost(RowByID(db.Post, Atoi(value[i].ID)))], {}).items
      [] prefix \in {"topics", "topic:unique"} ->
            enrichTopics(db, [i \in DOMAIN value |->
                        DecodeTopic(RowByID(db.Topic, Atoi(value[i].ID)))], {}).items
      [] prefix = "externals" ->
            enrichExternals(db, [i \in DOMAIN value |->
                        DecodeExternal(RowByID(db.External, Atoi(value[i].ID)))], {}).items
      [] OTHER -> value

CachedValuesHydrated ==
    \A k \in DOMAIN cache : cache[k].value = HydratedFromDB(k[1], cache[k].value)

\* C13: in every cached operation the cache read happens before the primary
\* database query and the cache write only after every relation query of
\* the hydration pass has run, and every value stored in the cache is fully
\* hydrated: each relation of each cached entity equals what the database
\* holds for it.
C13_CacheAroundHydration ==
    /\ ReadFirstWriteLast
    /\ CachedValuesHydrated

\* a call that read the cache, missed, hydrated and wrote the cache
C13_Witness ==
    /\ pc = "done"
    /\ call.op = "QueryPosts"
    /\ Gets # {} /\ Sets # {}
    /\ Len(queries) > 0

\* two calls of the same method with the same arguments
SameRequest(a, b) ==
    /\ a.op = b.op
    /\ a.where = b.where /\ a.orders = b.orders
    /\ a.take = b.take /\ a.skip = b.skip

\* the step is the return of a list or unique-key call that repeats the
\* last call that missed the cache, which returned successfully and whose
\* entry, if it has one, has not expired
RepeatsWithinTTL ==
    /\ pc' = "done"
    /\ call'.op \in ListOps \cup UniqueOps
    /\ cacheOn
    /\ SameRequest(hist.call, call')
    /\ ~hist.ret.err
    /\ "cacheGet" \notin call'.fail

NoDatabaseQuery == stmt'.table = "" /\ queries' = <<>>

\* C14: with the cache enabled and healthy, after a list or unique-key call
\* has returned successfully a second identical call within the TTL returns
\* without any database query, whatever the first result was; with the cache
\* disabled every such call queries the database.
C14_SecondCallFromCache ==
    [][/\ RepeatsWithinTTL => NoDatabaseQuery
       /\ (pc' = "done" /\ call'.op \in ListOps \cup UniqueOps /\ ~cacheOn)
             => stmt'.table # ""]_vars

\* the same for a first call that returned at least one entity, or any list
\* of externals
C14_SecondCallFromCacheIfFound ==
    [][(RepeatsWithinTTL /\ (hist.call.op = "QueryExternals" \/ Len(hist.ret.value) > 0))
            => NoDatabaseQuery]_vars

\* a second identical call answered by the cache
C14_Witness ==
    /\ pc = "done"
    /\ cacheOn
    /\ SameRequest(hist.call, call)
    /\ call.op = "QueryPosts"
    /\ Gets # {}
    /\ stmt.table = ""
    /\ Len(ret.value) > 0

CacheKinds == {"cacheGet", "cacheSet"}

\* the step is the return of a cached call during which a cache operation
\* failed
CacheFailed ==
    /\ pc' = "done"
    /\ \E i \in DOMAIN cacheOps' : cacheOps'[i].failed

\* the step repeats, with a failing cache operation, the last call that
\* missed with the cache healthy: the same key, the same database faults and
\* the same rows from the primary statement
RepeatsHealthyMiss ==
    /\ CacheFailed
    /\ \E i \in DOMAIN cacheOps' : cacheOps'[i].key = hist.key
    /\ hist.call.fail = call'.fail \ CacheKinds
    /\ hist.full = full'

\* C15: a failing cache read is treated as a miss, so that the database
\* path runs and its result is returned, a failing cache write is dropped,
\* and no cache error changes the value or the error the caller gets.
C15_CacheErrorsSwallowed ==
    [][/\ (pc' = "done" /\ \E i \in DOMAIN cacheOps' :
                cacheOps'[i].op = "Get" /\ cacheOps'[i].failed)
            => stmt'.table # ""
       /\ (pc' = "done" /\ \E i \in DOMAIN cacheOps' :
                cacheOps'[i].op = "Set" /\ cacheOps'[i].failed)
            => cache' = cache
       /\ CacheFailed => (ret'.err => call'.fail \ CacheKinds # {})
       /\ RepeatsHealthyMiss => ret' = hist.ret]_vars

\* a call whose Get failed although the key was cached, which returned what
\* the healthy miss before it had returned
C15_Witness ==
    /\ pc = "done"
    /\ "cacheGet" \in call.fail
    /\ \E i \in DOMAIN cacheOps : cacheOps[i].key \in DOMAIN cache
    /\ stmt.table # ""
    /\ ~ret.err /\ Len(ret.value) > 0

\* a call whose Set failed and which returned its entities all the same
C15_WitnessWrite ==
    /\ pc = "done"
    /\ \E i \in Sets : cacheOps[i].failed /\ cacheOps[i].key \notin DOMAIN cache
    /\ ~ret.err /\ Len(ret.value) > 0

\* the filter of a call after the published-state defaulting of its method
Defaulted(c) ==
    CASE c.op \in {"QueryPosts", "QueryPostsCount"} -> ensurePostPublished(c.where)
      [] c.op \in {"QueryExternals", "QueryExternalsCount"} ->
            ensureExternalPublished(c.where)
      [] OTHER -> c.where

\* two requests for the same operation with structurally identical filter
\* (after defaulting), order rules, take and skip
SameDefaulted(a, b) ==
    /\ a.op = b.op
    /\ Defaulted(a) = Defaulted(b)
    /\ a.orders = b.orders /\ a.take = b.take /\ a.skip = b.skip

C17_DisabledIsTheMissPath ==
    [][(pc' = "done" /\ ~cacheOn) =>
          /\ cacheOps' = <<>>
          /\ cache' = cache
          /\ (/\ SameRequest(hist.call, call')
              /\ hist.call.fail = call'.fail
              /\ hist.full = full')
                => ret' = hist.ret]_vars

\* a call of a Repo without cache that repeats a request the cache holds an
\* entry for, runs its statement and returns what the miss had returned
C17_Witness ==
    /\ pc = "done" /\ ~cacheOn
    /\ SameRequest(hist.call, call)
    /\ hist.key \in DOMAIN cache
    /\ stmt.table # "" /\ Len(queries) > 0
    /\ ret = hist.ret

---------------------------------------------------------------------------
(* Properties of the filter translation.                                   *)

\* the predicates of the statement that carry a placeholder, in the order
\* of their appearance in its text: those of an EXISTS stand inside it
Placed(conds) ==
    Flatten([i \in DOMAIN conds |->
                IF conds[i].ph > 0 THEN <<conds[i]>> ELSE conds[i].subs])

\* the value of the filter branch a predicate stands for, Unset when the
\* filter has no such branch set; w is the filter after the published-state
\* defaulting
Unset == Arg("none", "")

StringBranch(f, op) ==
    IF IsNil(f) THEN Unset
    ELSE IF op = "ANY" THEN Arg("array", Deref(f).in)
    ELSE IF IsNil(Deref(f).equals) THEN Unset
    ELSE Arg("string", Deref(Deref(f).equals))

BoolBranch(f) ==
    IF IsNil(f) \/ IsNil(Deref(f).equals) THEN Unset
    ELSE Arg("bool", Deref(Deref(f).equals))

\* the filter of one field of the `some` of a relation filter
SomeField(rel, field) ==
    IF IsNil(rel) \/ IsNil(Deref(rel).some) THEN Nil
    ELSE Deref(Deref(rel).some)[field]

DateBranch(f, op) ==
    IF IsNil(f) THEN Unset
    ELSE IF op = "=" THEN (IF IsNil(Deref(f).equals) THEN Unset
                           ELSE Arg("time", Deref(Deref(f).equals)))
    ELSE IF IsNil(Deref(f).not) \/ IsNil(Deref(Deref(f).not).equals) THEN Unset
    ELSE Arg("time", Deref(Deref(Deref(f).not).equals))

BranchValue(w, c) ==
    CASE c.col \in {"slug", "e.slug"} -> StringBranch(w.slug, c.op)
      [] c.col \in {"state", "e.state"} -> StringBranch(w.state, c.op)
      [] c.col \in {"name", "type", "style"} -> StringBranch(w[c.col], c.op)
      [] c.col \in {"isAdult", "isMember", "isFeatured"} -> BoolBranch(w[c.col])
      [] c.col = "s.slug" -> StringBranch(SomeField(w.sections, "slug"), "=")
      [] c.col = "s.state" -> StringBranch(SomeField(w.sections, "state"), "=")
      [] c.col = "c.slug" -> StringBranch(SomeField(w.categories, "slug"), "=")
      [] c.col = "c.state" -> StringBranch(SomeField(w.categories, "state"), "=")
      [] c.col = "c.isMemberOnly" ->
            BoolBranch(SomeField(w.categories, "isMemberOnly"))
      [] c.col = "p.slug" ->
            StringBranch(IF IsNil(w.partner) THEN Nil ELSE Deref(w.partner).slug, "=")
      [] c.col = "e.publishedDate" -> DateBranch(w.publishedDate, c.op)

\* C18: the statement of a list or count query uses the placeholders $1..$n
\* each exactly once and in increasing order of appearance, n is the number
\* of arguments passed, and the i-th argument is the value of the filter
\* branch that produced $i, whatever subset of the branches is set.
C18_PlaceholdersMatchArgs ==
    (Executed /\ call.op \in ListOps \cup CountOps) =>
        LET placed == Placed(stmt.conds)
        IN  /\ Len(placed) = Len(stmt.args)
            /\ \A i \in DOMAIN placed : placed[i].ph = i
            /\ \A i \in DOMAIN placed :
                  stmt.args[i] = BranchValue(Deref(Defaulted(call)), placed[i])

\* a statement with five placeholders, two of them inside EXISTS subqueries
C18_Witness ==
    /\ Executed /\ call.op = "QueryPosts"
    /\ Len(stmt.args) >= 5
    /\ \E i, j \in DOMAIN stmt.conds :
          /\ i < j
          /\ Len(stmt.conds[i].subs) > 0 /\ Len(stmt.conds[j].subs) > 0

\* the string fields of the primary entities that the filters name
StringFields(table) ==
    CASE table = "Topic" -> {"slug", "name", "state", "type", "style"}
      [] OTHER -> {"slug", "state"}

\* the string filter of one field of the finished call, after defaulting
FieldFilter(fld) ==
    IF IsNil(Defaulted(call)) THEN Nil ELSE Deref(Defaulted(call))[fld]

\* the row passes every predicate the statement has on the column
SelectedOn(row, fld) ==
    \A i \in DOMAIN stmt.conds :
        (stmt.conds[i].op \in {"=", "ANY"} /\ BareCol(stmt.conds[i].col) = fld)
            => CondHolds(db, row, stmt.conds[i], stmt.args)

\* C19: for a string filter on a field of the primary entity, the rows the
\* translated predicate selects are exactly the rows the reference matcher
\* accepts: the value equals `equals` when set, is a member of `in` when
\* not empty, and does not satisfy the nested filter of `not` when set.
C19_StringFilterAsMatcher ==
    (Executed /\ call.op \in ListOps \cup CountOps) =>
        \A fld \in StringFields(stmt.table) : \A row \in db[stmt.table] :
            SelectedOn(row, fld) <=> matchesStringFilter(row[fld], FieldFilter(fld))

\* the same for the filters whose only branch is equals
C19_EqualsAsMatcher ==
    (Executed /\ call.op \in ListOps \cup CountOps) =>
        \A fld \in StringFields(stmt.table) : \A row \in db[stmt.table] :
            (\/ IsNil(FieldFilter(fld))
             \/ /\ Len(Deref(FieldFilter(fld)).in) = 0
                /\ IsNil(Deref(FieldFilter(fld)).not))
                => (SelectedOn(row, fld)
                        <=> matchesStringFilter(row[fld], FieldFilter(fld)))

\* a list of articles whose state filter has only `not`: a row the matcher
\* rejects passes the statement
C19_Witness ==
    /\ Executed /\ call.op = "QueryPosts"
    /\ ~IsNil(FieldFilter("state"))
    /\ ~IsNil(Deref(FieldFilter("state")).not)
    /\ \E row \in db.Post :
          /\ SelectedOn(row, "state")
          /\ ~matchesStringFilter(row.state, FieldFilter("state"))


---------------------------------------------------------------------------
(* Arguments that do not match the recognized shape.                       *)

\* the argument has the shape of the struct T: nil, or a value of T's type
\* whose keys are all fields of T and whose values have the fields' shapes
RECURSIVE Recognized(_, _)
Recognized(raw, T) ==
    \/ raw.t = "nil"
    \/ T = "*string" /\ raw.t = "string"
    \/ T = "*bool" /\ raw.t = "bool"
    \/ /\ T = "[]string"
       /\ raw.t = "list"
       /\ \A i \in DOMAIN raw.l : raw.l[i].t = "string"
    \/ /\ T \notin {"*string", "*bool", "[]string"}
       /\ raw.t = "map"
       /\ Keys(raw.m) \subseteq FieldNames(T)
       /\ \A k \in Keys(raw.m) : Recognized(ValueOf(raw.m, k), FieldType(T, k))

\* the order argument is nil or a list of field-to-direction maps
RecognizedOrder(raw) ==
    \/ raw.t = "nil"
    \/ raw.t = "list" /\ \A i \in DOMAIN raw.l : raw.l[i].t = "map"

WhereType(op) == IF op = "post" THEN "PostWhereUniqueInput" ELSE "PostWhereInput"

ResolverDone == pc = "done" /\ call.op \in {"posts", "post"}

MalformedWhere == ~Recognized(call.where[1], WhereType(call.op))
MalformedOrder == call.op = "posts" /\ ~RecognizedOrder(call.orders[1])

FailedBeforeAccess ==
    ret.err /\ stmt = NoStatement /\ queries = <<>> /\ cacheOps = <<>>

\* C20: a filter, order or unique-key argument that does not match the
\* recognized shape makes the operation fail with an error before any
\* database or cache access.
C20_MalformedArgumentFails ==
    ResolverDone /\ (MalformedWhere \/ MalformedOrder) => FailedBeforeAccess

\* what the code does: a value of the wrong type in the filter or the unique
\* key is an error before any access
C20_WrongTypeFails ==
    ResolverDone /\ Decode(call.where[1], WhereType(call.op)).err
        => FailedBeforeAccess

\* a filter with a value of the wrong type was refused before any access
C20_Witness ==
    /\ ResolverDone
    /\ call.op = "posts"
    /\ MalformedWhere
    /\ FailedBeforeAccess

\* a filter with a key outside the recognized fields was answered
C20_WitnessDropped ==
    /\ ResolverDone
    /\ MalformedWhere
    /\ ~ret.err
    /\ stmt # NoStatement

---------------------------------------------------------------------------
(* Deadlines.                                                              *)

TimedDone(ops) == pc = "done" /\ call.op \in ops

PrimaryCancelled == "primary" \in call.fail
RelationsCancelled == call.fail \cap PostKinds # {}

\* the caller's context has no deadline of its own
OwnDeadlinesOnly == call.at.parent = NoDeadline

\* a count query is cancelled exactly from 5 s after the entry on
CountDeadline ==
    TimedDone({"QueryPostsCount"}) /\ OwnDeadlinesOnly
        => (PrimaryCancelled <=> call.at.primary >= CountTimeout)

\* the primary fetch is cancelled exactly from 10 s after the entry on
PrimaryDeadline ==
    TimedDone({"QueryPosts", "QueryPostByUnique"}) /\ OwnDeadlinesOnly
        => (PrimaryCancelled <=> call.at.primary >= PrimaryTimeout)

\* the relation queries are cancelled only when the 15 s of the hydration
\* pass have expired
HydrationDeadline ==
    TimedDone({"QueryPosts", "QueryPostByUnique"}) /\ OwnDeadlinesOnly
        /\ ~PrimaryCancelled /\ RelationsCancelled
        => call.at.hydrate >= call.at.enrich + HydrationTimeout

\* C21: count queries run under 5 s, the primary fetch under 10 s, and the
\* relation queries of a list or unique-key call are cancelled only when the
\* 15 s of the hydration pass expire, not when the primary fetch's deadline
\* expires.
C21_Deadlines == CountDeadline /\ PrimaryDeadline /\ HydrationDeadline

\* what the code does: the context of the hydration pass is derived from the
\* context of the method, so its relation queries are cancelled from 10 s
\* after the entry of the method on
C21_HydrationUnderPrimaryDeadline ==
    TimedDone({"QueryPosts", "QueryPostByUnique"}) /\ OwnDeadlinesOnly
        /\ ~PrimaryCancelled
        => (RelationsCancelled <=> call.at.hydrate >= PrimaryTimeout)

C21_CountAndPrimaryDeadlines == CountDeadline /\ PrimaryDeadline

\* a hydration pass entered after 4 s whose relation queries, issued after
\* 12 s, were cancelled
C21_Witness ==
    /\ TimedDone({"QueryPosts"})
    /\ OwnDeadlinesOnly
    /\ call.at.enrich = 4
    /\ call.at.hydrate = 12
    /\ ~PrimaryCancelled
    /\ RelationsCancelled
    /\ ret.err

---------------------------------------------------------------------------
(* The singular related articles.                                          *)

\* the article that the slot of the row references, if there is one
SingleRef(ref) ==
    IF nullableInt(ref) > 0 /\ HasID(db.Post, nullableInt(ref))
    THEN Ptr(RowByID(db.Post, nullableInt(ref))) ELSE Nil

\* the slot holds the identifier, the slug and the title of the referenced
\* article and, apart from its hero image, nothing else; it is absent when
\* the row references no article
NarrowSlot(slot, ref) ==
    IF IsNil(SingleRef(ref)) THEN IsNil(slot)
    ELSE /\ ~IsNil(slot)
         /\ Deref(slot).ID = Itoa(Deref(SingleRef(ref)).id)
         /\ Deref(slot).Slug = Deref(SingleRef(ref)).slug
         /\ Deref(slot).Title = Deref(SingleRef(ref)).title
         /\ [Deref(slot) EXCEPT !.ID = "", !.Slug = "", !.Title = "",
                                !.HeroImage = Nil, !.Metadata = NoMeta] = ZeroPost

---------------------------------------------------------------------------
(* The derived media URLs.                                                 *)

\* the photos of the entities a call returned
PhotosOf(e) ==
    SeqToSet(e.HeroImage) \cup SeqToSet(e.OgImage)
        \cup (IF "SlideshowImages" \in DOMAIN e THEN e.SlideshowImages ELSE {})

ReturnedPhotos ==
    IF /\ pc = "done" /\ ~ret.err
       /\ call.op \in {"QueryPosts", "QueryPostByUnique", "QueryTopics",
                       "QueryTopicByUnique"}
    THEN UNION {PhotosOf(e) : e \in SeqToSet(ret.value)}
    ELSE {}

\* the URL of one size: host/id.ext for the original, host/id-size.ext else
SizedURL(host, fileID, size, ext) ==
    IF size = "" THEN <<host, "/", fileID, ".", ext>>
    ELSE <<host, "/", fileID, "-", size, ".", ext>>

\* the URL set as a function of file id, extension and host alone: empty
\* for an empty file id, and with jpg for an empty extension
DerivedURLs(host, fileID, ext) ==
    [size \in {"Original", "W480", "W800", "W1200", "W1600", "W2400"} |->
        IF fileID = "" THEN <<>>
        ELSE SizedURL(host, fileID,
                      CASE size = "Original" -> ""
                        [] size = "W480" -> "w480"
                        [] size = "W800" -> "w800"
                        [] size = "W1200" -> "w1200"
                        [] size = "W1600" -> "w1600"
                        [] size = "W2400" -> "w2400",
                      IF ext = "" THEN "jpg" ELSE ext)]

ImageRow(photo) == RowByID(db.Image, Atoi(photo.ID))

\* C23: the derived URLs of every photo, in every request, are the same
\* function of (file id, extension, host); an empty file id yields the empty
\* set and an empty extension is treated as jpg.
C23_URLsDetermined ==
    \A ph \in ReturnedPhotos :
        /\ ph.Resized =
              DerivedURLs(StaticsHost, ImageRow(ph).fileID, ImageRow(ph).ext)
        /\ ph.ResizedWebp = DerivedURLs(StaticsHost, ImageRow(ph).fileID, "webp")

\* a call returned a photo without extension and one without file id
C23_Witness ==
    /\ \E ph \in ReturnedPhotos : ImageRow(ph).ext = "" /\ ImageRow(ph).fileID # ""
    /\ \E ph \in ReturnedPhotos : ImageRow(ph).fileID = ""

---------------------------------------------------------------------------
(* Requests served at the same time.                                       *)

\* what QueryPosts returns when no other request is in flight
RunAlone(where, take) ==
    LET w == ensurePostPublished(where)
        st == Statement("Post", PostListConds(w), PostOrderBy(<<>>),
                        LimitOf(take), Nil)
    IN  {LET rows == Window(o, st.limit, st.offset)
             en == enrichPosts(db, [i \in DOMAIN rows |-> DecodePost(rows[i])], {})
         IN  IF Len(rows) = 0 THEN Ret(FALSE, <<>>)
             ELSE IF en.err THEN Ret(TRUE, <<>>)
             ELSE Ret(FALSE, en.items) :
         o \in Orderings(Matching(db, st), st.order)}

---------------------------------------------------------------------------
(* The configuration.                                                      *)

Loaded == pc = "done" /\ call.op = "Load"

\* a variable that is set to a value its parser rejects
UnparsableBool(str) == str # <<>> /\ ParseBool(str).err
UnparsableInt(str) == str # <<>> /\ AtoiText(str).err

EnabledInEnv(env) == env.REDIS_ENABLED # <<>> /\ ParseBool(env.REDIS_ENABLED).b

MissingOrUnparsable(env) ==
    \/ env.DATABASE_URL = ""
    \/ env.STATICS_HOST = ""
    \/ UnparsableBool(env.REDIS_ENABLED)
    \/ UnparsableInt(env.REDIS_TTL)

\* the defaults of a successful Load
DefaultsApplied(env, cfg) ==
    /\ cfg.Port = (IF env.PORT = "" THEN "8080" ELSE env.PORT)
    /\ cfg.GoEnv = (IF env.GO_ENV = "" THEN "dev" ELSE env.GO_ENV)
    /\ (env.REDIS_ENABLED = <<>> => cfg.RedisEnabled = FALSE)
    /\ (env.REDIS_TTL = <<>> => cfg.RedisTTL = 3600)

\* C25: Load is an error when DATABASE_URL or STATICS_HOST is empty, when
\* REDIS_ENABLED or REDIS_TTL does not parse, and when REDIS_ENABLED is true
\* while REDIS_URL is empty; otherwise it succeeds with the defaults 8080,
\* dev, false and 3600.
C25_LoadErrors ==
    Loaded =>
        /\ ret.err <=> \/ MissingOrUnparsable(call.where)
                       \/ EnabledInEnv(call.where) /\ call.where.REDIS_URL = ""
        /\ ~ret.err => DefaultsApplied(call.where, ret.value)

\* C25, as the code has it: Load is an error exactly when a mandatory
\* variable is empty or a parsed one does not parse, and a successful Load
\* has the defaults; an enabled cache without REDIS_URL is accepted.
C25_LoadErrorsWithoutRedisURL ==
    Loaded =>
        /\ ret.err <=> MissingOrUnparsable(call.where)
        /\ ~ret.err => DefaultsApplied(call.where, ret.value)

\* Load succeeded with the cache enabled and no REDIS_URL
C25_Witness ==
    /\ Loaded
    /\ ~ret.err
    /\ ret.value.RedisEnabled
    /\ ret.value.RedisURL = ""
    /\ ret.value.RedisTTL = 3600


---------------------------------------------------------------------------
(* The probe.                                                              *)

Probed == pc = "done" /\ call.op = "ProbeHandler" /\ ~ret.err

ValidJSON(body) == ~Unmarshal(body).err

\* the two bodies are the same response
SameBody(a, b) ==
    IF ValidJSON(a) /\ ValidJSON(b) THEN Unmarshal(a).v = Unmarshal(b).v
    ELSE a = b

\* what test i yielded at an endpoint
Yield(exchanges, i) == ProbeOne(ProbeTests[i], exchanges[i])

\* C26: a test matches exactly when neither endpoint had a transport
\* error, both returned the same status code and the bodies are equal as
\* parsed JSON (byte-equal when one is not valid JSON); the response has
\* one comparison per test, in test order, with status and error of both
\* sides and no body.
C26_ProbeMatches ==
    Probed =>
        /\ Len(ret.value) = Len(ProbeTests)
        /\ \A i \in DOMAIN ProbeTests :
            LET t == Yield(call.where.target, i)
                s == Yield(call.where.self, i)
                r == ret.value[i]
            IN  /\ r.Name = ProbeTests[i]
                /\ r.Match <=> /\ t.Error = "" /\ s.Error = ""
                               /\ t.StatusCode = s.StatusCode
                               /\ SameBody(t.Body, s.Body)
                /\ r.TargetStatus = t.StatusCode /\ r.SelfStatus = s.StatusCode
                /\ r.TargetError = t.Error /\ r.SelfError = s.Error
                /\ DOMAIN r = {"Name", "Match", "TargetStatus", "SelfStatus",
                               "TargetError", "SelfError", "Note"}

\* a test other than the first matched on bodies that differ as bytes
C26_Witness ==
    /\ Probed
    /\ \E i \in DOMAIN ProbeTests :
        /\ ret.value[i].Match
        /\ call.where.target[i].body # call.where.self[i].body
        /\ i > 1

\* a test did not match although the bodies are the same bytes
C26_WitnessStatus ==
    /\ Probed
    /\ \E i \in DOMAIN ProbeTests :
        /\ ~ret.value[i].Match
        /\ ret.value[i].Note = "status code differ"
        /\ call.where.target[i].body = call.where.self[i].body


---------------------------------------------------------------------------
(* The hero images of nested objects.                                      *)

ReturnedPosts ==
    IF pc = "done" /\ ~ret.err /\ call.op \in {"QueryPosts", "QueryPostByUnique"}
    THEN SeqToSet(ret.value)
    ELSE {}

\* the related articles, the singular related articles and the hero video
\* of a returned article, each with the hero image column of its row
NestedOf(p) ==
    {[e |-> rp, hero |-> RowByID(db.Post, Atoi(rp.ID)).heroImage] :
        rp \in p.Relateds \cup SeqToSet(p.RelatedsOne) \cup SeqToSet(p.RelatedsTwo)}
    \cup {[e |-> v, hero |-> RowByID(db.Video, Atoi(v.ID)).heroImage] :
            v \in SeqToSet(p.HeroVideo)}

\* the nested objects whose hero image id the image query answered
NestedWithHero(p) ==
    {n \in NestedOf(p) : n.hero.valid /\ HasID(db.Image, n.hero.v)}

\* C27: after enrichPosts every related article, singular related article
\* and hero video whose row carries a hero image id has its HeroImage equal
\* to the Photo the image query returned for that id.
C27_NestedHeroImagesAttached ==
    \A p \in ReturnedPosts : \A n \in NestedWithHero(p) :
        n.e.HeroImage = Ptr(PhotoOf(RowByID(db.Image, n.hero.v)))

\* C27, as the code has it: the hero image of a nested object stays what
\* its fetch left: nil on an article, whose metadata names the id, and an
\* empty Photo naming the id on a video.
C27_NestedHeroImagesPending ==
    \A p \in ReturnedPosts : \A n \in NestedWithHero(p) :
        \/ /\ IsNil(n.e.HeroImage)
           /\ n.e.Metadata.heroImageID = n.hero.v
        \/ n.e.HeroImage = Ptr(PendingPhoto(n.hero.v))

\* an article came back with a related article, a singular related article
\* and a hero video that all have a hero image in the database, while its
\* own hero image is attached
C27_Witness ==
    \E p \in ReturnedPosts :
        /\ \E rp \in p.Relateds :
              [e |-> rp, hero |-> RowByID(db.Post, Atoi(rp.ID)).heroImage]
                  \in NestedWithHero(p)
        /\ \E rp \in SeqToSet(p.RelatedsOne) :
              [e |-> rp, hero |-> RowByID(db.Post, Atoi(rp.ID)).heroImage]
                  \in NestedWithHero(p)
        /\ \E v \in SeqToSet(p.HeroVideo) :
              [e |-> v, hero |-> RowByID(db.Video, Atoi(v.ID)).heroImage]
                  \in NestedWithHero(p)
        /\ ~IsNil(p.HeroImage)
        /\ Deref(p.HeroImage).ID # ""


---------------------------------------------------------------------------
(* Counts and lists.                                                       *)

\* the statement of the list method over a filter, without take and skip
ListStatementOf(table, where, orders) ==
    CASE table = "Post" ->
            Statement("Post", PostListConds(ensurePostPublished(where)),
                      PostOrderBy(orders), Nil, Nil)
      [] table = "External" ->
            Statement("External",
                      ExternalListConds(ensureExternalPublished(where), orders),
                      ExternalOrderBy(orders), Nil, Nil)
      [] table = "Topic" ->
            Statement("Topic", TopicListConds(where), TopicOrderBy(orders), Nil, Nil)

\* the statement of the count method over a filter
CountStatementOf(table, where) ==
    CASE table = "Post" ->
            Statement("Post", PostCountConds(ensurePostPublished(where)),
                      <<>>, Nil, Nil)
      [] table = "External" ->
            Statement("External", ExternalCountConds(ensureExternalPublished(where)),
                      <<>>, Nil, Nil)
      [] table = "Topic" ->
            Statement("Topic", TopicCountConds(where), <<>>, Nil, Nil)

Counted == Executed /\ call.op \in CountOps /\ ~ret.err
ListedWhole ==
    Executed /\ call.op \in ListOps /\ ~ret.err /\ call.take = 0 /\ call.skip = 0

\* C28: a count query returns the number of rows its list query returns
\* for the same filter with no take and no skip, for articles, external
\* items and topics.
C28_CountEqualsList ==
    /\ Counted =>
          ret.count = Cardinality(Matching(db,
                          ListStatementOf(stmt.table, call.where, <<>>)))
    /\ ListedWhole =>
          Len(ret.value) = Cardinality(Matching(db,
                              CountStatementOf(stmt.table, call.where)))

\* the filter has no `in` on a text field, and for external items no date
\* filter
EqualsOnly ==
    /\ \A fld \in StringFields(stmt.table) :
          IsNil(FieldFilter(fld)) \/ Len(Deref(FieldFilter(fld)).in) = 0
    /\ (stmt.table = "External" /\ ~IsNil(call.where))
          => IsNil(Deref(call.where).publishedDate)

\* C28, as the code has it: count and list agree for the filters without
\* `in` and without a date filter, when the external items are not listed
\* in the order of their publication date.
C28_CountEqualsListOnEquals ==
    /\ (Counted /\ EqualsOnly) =>
          ret.count = Cardinality(Matching(db,
                          ListStatementOf(stmt.table, call.where,
                                          <<OrderRule("updatedAt", desc)>>)))
    /\ (ListedWhole /\ EqualsOnly
            /\ (stmt.table = "External" => ~orderUsesPublished(call.orders))) =>
          Len(ret.value) = Cardinality(Matching(db,
                              CountStatementOf(stmt.table, call.where)))

\* the external items were counted with no filter: the count includes the
\* published item without publication date, which the list leaves out
C28_Witness ==
    /\ Counted
    /\ call.op = "QueryExternalsCount"
    /\ IsNil(call.where)
    /\ ret.count > Cardinality(Matching(db, ListStatementOf("External", Nil, <<>>)))
    /\ Cardinality(Matching(db, ListStatementOf("External", Nil, <<>>))) > 0


---------------------------------------------------------------------------
(* The default filter as a function.                                       *)

\* the call passed its filter through ensurePostPublished or
\* ensureExternalPublished
Ensured ==
    /\ pc = "done"
    /\ call.op \in {"QueryPosts", "QueryPostsCount", "QueryExternals",
                    "QueryExternalsCount"}

\* the function of the call, once more
EnsureAgain(c, w) ==
    IF c.op \in {"QueryPosts", "QueryPostsCount"} THEN ensurePostPublished(w)
    ELSE ensureExternalPublished(w)

\* the filter the caller gave, a nil one as the empty filter
GivenFilter(c) ==
    IF ~IsNil(c.where) THEN Deref(c.where)
    ELSE IF c.op \in {"QueryPosts", "QueryPostsCount"} THEN NoPostWhere
    ELSE NoExternalWhere

\* C29: ensurePostPublished and ensureExternalPublished are idempotent,
\* change no field but state, leave a state filter of the caller as given
\* (also one with only `in` or only `not`), and yield a non-nil filter with
\* a non-nil state filter.
C29_EnsureIdempotent ==
    Ensured =>
        LET e == Defaulted(call)
            g == GivenFilter(call)
        IN  /\ EnsureAgain(call, e) = e
            /\ ~IsNil(e)
            /\ ~IsNil(Deref(e).state)
            /\ DOMAIN Deref(e) = DOMAIN g
            /\ \A f \in DOMAIN g \ {"state"} : Deref(e)[f] = g[f]
            /\ ~IsNil(g.state) => Deref(e).state = g.state
            /\ IsNil(g.state) => Deref(e).state = Ptr(Equals("published"))

\* an article query whose state filter had only `not`, with filters on
\* other fields, went through the default
C29_Witness ==
    /\ Ensured
    /\ call.op = "QueryPosts"
    /\ ~IsNil(call.where)
    /\ ~IsNil(Deref(call.where).state)
    /\ IsNil(Deref(Deref(call.where).state).equals)
    /\ ~IsNil(Deref(Deref(call.where).state).not)
    /\ ~IsNil(Deref(call.where).slug)
    /\ ~IsNil(Deref(call.where).sections)


---------------------------------------------------------------------------
(* Errors and the cache.                                                   *)

\* the call wrote to the cache
Wrote(ops) == \E i \in DOMAIN ops : ops[i].op = "Set"

\* the keys whose entry a step stored or replaced
Stored == {k \in DOMAIN cache' : k \notin DOMAIN cache \/ cache'[k] # cache[k]}

\* C30: a list, unique-key or count operation that returns an error (failed
\* primary query or aborting relation query) issues no cache write, and
\* every value that enters the cache is the successful result the storing
\* request returned to its caller.
C30_NoWriteOnError ==
    /\ [](\A k \in DOMAIN cache : ~cache[k].err)
    /\ [][(pc = "idle" /\ pc' = "done") =>
            /\ ret'.err => (~Wrote(cacheOps') /\ cache' = cache)
            /\ \A k \in Stored : ~ret'.err /\ cache'[k] = ret' /\ Wrote(cacheOps')]_vars

\* a call failed on an aborting relation query after a miss, while the
\* cache held entries of other calls, and left no entry of its own
C30_Witness ==
    /\ pc = "done"
    /\ ret.err
    /\ call.op = "QueryPosts"
    /\ "sections" \in call.fail
    /\ Len(queries) > 0
    /\ Len(cacheOps) = 1
    /\ cacheOps[1].op = "Get"
    /\ cacheOps[1].key \notin DOMAIN cache
    /\ Cardinality(DOMAIN cache) >= 2

===========================================================================
